---------------------------- MODULE Spec2Model ----------------------------
(***************************************************************************)
(* Asynchronous-operation control wrappers of angular-18-clean:            *)
(*   ShareExecution   (shared/decorators/share-execution-decorator.ts)     *)
(*   ObservableQueue  (unnamed/part_023)                                   *)
(*   ObservableCache  (unnamed/part_020)                                   *)
(*   SmartRetry       (routes/main-route/main.route.ts)                    *)
(* Every wrapper has its own variables, initial state and next-state       *)
(* relation; a wrapper's specification leaves the other wrappers idle.     *)
(* RxJS operators are modelled by their RxJS 7 behaviour:                  *)
(*   shareReplay(n): refCount false, reset on error, kept on complete;     *)
(*   finalize: runs when its own subscriber completes, errors or           *)
(*             unsubscribes;                                               *)
(*   concatMap: one inner subscription at a time, FIFO buffer, an inner    *)
(*             error errors the outer subscription;                        *)
(*   retryWhen: resubscribes the source when the notifier emits.           *)
(***************************************************************************)
EXTENDS Integers, Sequences, FiniteSets, TLC

VARIABLES
  \* ---- ShareExecution ----
  methodKind,      \* what the decorated method returns
  executionCache,  \* executionCache.get(instance): key -> shared result (0: no entry)
  shared,          \* the shared results created so far, by id
  callers,         \* the calls made so far and what each caller has seen
  invoked,         \* key -> number of invocations of originalMethod
  settledCount,    \* key -> number of executions that have settled
  execCount,       \* number of executions (source subscriptions) started
  \* ---- ObservableQueue (one queue id of queueStorage) ----
  qItems,          \* the calls made so far: operation kind, state, handle
  qEnqueued,       \* item ids in the order they were passed to queue.next
  qStarted,        \* item ids in the order their operation was started
  qBuffer,         \* concatMap's buffer of items waiting for the worker
  qActive,         \* the item whose inner observable is subscribed (0: none)
  qWorkerAlive,    \* the queue.pipe(concatMap).subscribe() subscription exists
  \* ---- SmartRetry (one call of a decorated method) ----
  rCfg,            \* the decorator options and what the method returns
  rPc,             \* "idle", "attempting", "waiting" (retry timer), "done"
  rAttempt,        \* index of the current attempt (errors seen by retryWhen)
  rOpRuns,         \* number of executions of the wrapped operation
  rLastError,      \* error of the last failed attempt
  rPromise,        \* settlement of the method's Promise ("pending" before)
  rDelay,          \* delay of the running retry timer
  rOutcome,        \* what the caller has received
  \* ---- ObservableCache (memory scope) ----
  cCfg,            \* the decorator options, the keys and the bounds in use
  cNow,            \* Date.now()
  memoryCache,     \* key -> cache item (present or not)
  lruKeys,         \* the Map key -> time of last use, in insertion order
  cacheGroups,     \* group -> keys
  cCalls,          \* the calls made so far: what each returned and received
  cFetches,        \* the subscriptions of result$ pipelines that are running
  cTimers,         \* the pending setTimeout(() => fetchFreshData().subscribe(), 0)
  cInvoked,        \* key -> number of invocations of originalMethod
  cNextOid,        \* identity of the next cache item object
  cStored,         \* key -> the value last stored, when, and whether it is still there
  cLastInsert,     \* what the last setCachedValue found and evicted
  cLastCall,       \* what the last call of the cached method found and returned
  cAdmin,          \* invalidate, invalidateGroup and clear operations so far
  cLastAdmin,      \* the last such operation and the stored keys it removed and kept
  cStorage,        \* sessionStorage / localStorage: key -> JSON of a cache item
  \* ---- PollingObservable (one call of a decorated method) ----
  pCfg,            \* the decorator options
  pNow,            \* Date.now()
  pPc,             \* "idle", "called", "running", "ended", "cancelled"
  startTime,       \* time of the call
  pNextTick,       \* when timer(0, interval) emits next
  attemptCount,    \* attemptCount of the call's closure
  lastValue,       \* lastValue of the call's closure
  stopSubject,     \* stop$: "open" or "stopped" (next and complete were called)
  pDuration,       \* the timer(maxDuration): "none", "armed", "fired", "cancelled"
  pOuterDone,      \* takeUntil or takeWhile has completed the timer stream
  pInner,          \* the attempt subscribed by switchMap: "none", "running", "aborted"
  pInvoked,        \* number of invocations of originalMethod
  pDropped,        \* attempts unsubscribed by switchMap before they settled
  pCompleteLog,    \* the reasons onComplete was called with, in order
  pAttemptLog,     \* the (attempt, value) pairs onAttempt was called with
  pDelivered,      \* the values the subscriber received
  pOutcome,        \* how the subscriber's stream terminated ("none" before)
  pPredTrue,       \* stopPredicate has returned true
  pEndCause,       \* what made the polling stop ("none" before)
  \* ---- BulkOperator (one call of a decorated method) ----
  bCfg,            \* the decorator options and what the method does per item
  bPc,             \* the batch driver: "idle", "running", "done", "failed"
  bBatch,          \* index of the batch being processed (0: none)
  bOps,            \* item -> state of its operation's Observable
  bSettled,        \* item -> settlement of the Promise the method returned
  bBatchResults,   \* what toArray has collected for the current batch
  allResults,      \* allResults of the call's closure
  bEmitted,        \* number of results$.next() calls so far
  bSub,            \* the caller's subscription: "no", "yes", "done"
  bReceived,       \* the result lists the caller has received
  \* ---- ShareReplay (one decorated method, one instance, one key) ----
  srKind,          \* what originalMethod returns: "observable" or "promise"
  srNow,           \* the time
  instancesCache,  \* the entry of the key: a shared result, or 0
  srShared,        \* the shared results created so far
  srCallers,       \* the calls made so far: what each was handed and its state
  srTimers,        \* the times at which a setTimeout of cleanupCache is due
  srInvoked,       \* number of invocations of originalMethod
  srDone,          \* the times at which an execution completed
  srLastCall,      \* the last call: when, whether it invoked, what it found
  \* ---- SmartRetry's calculateDelay over the retries of one call ----
  dCfg,            \* strategy, initialDelay, maxDelay, increment
  dDelays,         \* the delays computed so far: dDelays[n + 1] is before retry n
  \* ---- ObservableMemoize (one decorated method) ----
  mCfg,            \* the decorator options and what the method returns
  mNow,            \* Date.now()
  memoizationCache, \* memoizationCache.get(methodName): the entries, in Map order
  mCallers,        \* the calls made so far: what each was handed and its state
  mInvoked,        \* key -> number of invocations of originalMethod
  mExecCount,      \* number of executions of the operation started
  mRecent,         \* the keys in the order of their last use, least recent first
  mLastEvict,      \* the last eviction: the key removed and the least recently used
  mCleared,        \* number of calls of the clear method
  \* ---- BlockUntilComplete / ShareExecution(cooldownTime) / ShareExecutionWithCache ----
  fCfg,            \* which decorator, its cooldownTime, what the method returns
  fNow,            \* the time
  isExecuting,     \* isExecuting of the decorator's closure
  cooldownActive,  \* cooldownActive of the decorator's closure
  sharedResult,    \* sharedResult of the decorator's closure (0: null)
  fShared,         \* the results built so far, one per invocation of the method
  fCallers,        \* the calls made so far: what each was handed and its state
  fTimers,         \* the times at which a timer(cooldownTime) is due
  fInvoked,        \* number of invocations of originalMethod
  fExecCount,      \* number of executions of the method's Observable started
  fLastEnd,        \* when and how the last execution that ended did so
  fLastCall,       \* the last call: what it found and what it returned
  \* ---- the options of ShareExecution(cooldownTime) and BulkOperator({batchSize}) ----
  wCfg,            \* the decorator, the option passed to it, the number of items
  wPc,             \* "applying", "rejected", "wrapped", "splitting", "returned"
  wI,              \* i of the loop that splits the items into batches
  wBatches         \* number of batches pushed so far

shareVars == <<methodKind, executionCache, shared, callers, invoked,
               settledCount, execCount>>

queueVars == <<qItems, qEnqueued, qStarted, qBuffer, qActive, qWorkerAlive>>

retryVars == <<rCfg, rPc, rAttempt, rOpRuns, rLastError, rPromise, rDelay, rOutcome>>

cacheVars == <<cCfg, cNow, memoryCache, lruKeys, cacheGroups, cCalls, cFetches,
               cTimers, cInvoked, cNextOid, cStored, cLastInsert, cLastCall, cAdmin,
               cLastAdmin, cStorage>>

pollVars == <<pCfg, pNow, pPc, startTime, pNextTick, attemptCount, lastValue,
              stopSubject, pDuration, pOuterDone, pInner, pInvoked, pDropped,
              pCompleteLog, pAttemptLog, pDelivered, pOutcome, pPredTrue, pEndCause>>

bulkVars == <<bCfg, bPc, bBatch, bOps, bSettled, bBatchResults, allResults, bEmitted,
              bSub, bReceived>>

replayVars == <<srKind, srNow, instancesCache, srShared, srCallers, srTimers,
                srInvoked, srDone, srLastCall>>

delayVars == <<dCfg, dDelays>>

memoVars == <<mCfg, mNow, memoizationCache, mCallers, mInvoked, mExecCount, mRecent,
              mLastEvict, mCleared>>

flagVars == <<fCfg, fNow, isExecuting, cooldownActive, sharedResult, fShared, fCallers,
              fTimers, fInvoked, fExecCount, fLastEnd, fLastCall>>

wrapVars == <<wCfg, wPc, wI, wBatches>>

vars == <<shareVars, queueVars, retryVars, cacheVars, pollVars, bulkVars, replayVars,
          delayVars, memoVars, flagVars, wrapVars>>

(***************************************************************************)
(*                            ShareExecution                               *)
(***************************************************************************)
Keys == {"k1", "k2"}
Kinds == {"observable", "promise", "value"}
MaxCalls == 3

NoOutcome == [kind |-> "none", exec |-> 0]

\* A cleanup that leaves the entry of the key in place.
cleanupCache_keep(cache, key) == cache

\* instanceCache.delete(key): whatever entry the key has now is removed.
cleanupCache(cache, key) == [cache EXCEPT ![key] = 0]

\* The subscribers of shared result s that are subscribed right now.
ActiveSubscribers(s) ==
  {c \in DOMAIN callers : callers[c].h = s /\ callers[c].st = "subscribed"}

\* descriptor.value: share the entry of the key, or invoke originalMethod.
ShareCall(k) ==
  /\ Len(callers) < MaxCalls
  /\ IF executionCache[k] # 0
     THEN /\ callers' = Append(callers,
                [h |-> executionCache[k], key |-> k,
                 st |-> IF methodKind = "promise" THEN "subscribed" ELSE "held",
                 early |-> settledCount[k] = 0, got |-> NoOutcome])
          /\ UNCHANGED <<executionCache, shared, invoked, settledCount, execCount>>
     ELSE LET id == Len(shared) + 1 IN
          /\ invoked' = [invoked EXCEPT ![k] = @ + 1]
          /\ CASE methodKind = "observable" ->
                    \* result.pipe(shareReplay, finalize): nothing runs yet
                    /\ shared' = Append(shared,
                          [key |-> k, conn |-> "cold", buffer |-> NoOutcome, exec |-> 0])
                    /\ executionCache' = [executionCache EXCEPT ![k] = id]
                    /\ callers' = Append(callers,
                          [h |-> id, key |-> k, st |-> "held",
                           early |-> settledCount[k] = 0, got |-> NoOutcome])
                    /\ UNCHANGED <<settledCount, execCount>>
               [] methodKind = "promise" ->
                    \* the promise is running; toPromise() subscribes at once
                    /\ shared' = Append(shared,
                          [key |-> k, conn |-> "running", buffer |-> NoOutcome,
                           exec |-> execCount + 1])
                    /\ execCount' = execCount + 1
                    /\ executionCache' = [executionCache EXCEPT ![k] = id]
                    /\ callers' = Append(callers,
                          [h |-> id, key |-> k, st |-> "subscribed",
                           early |-> settledCount[k] = 0, got |-> NoOutcome])
                    /\ UNCHANGED settledCount
               [] methodKind = "value" ->
                    \* neither Observable nor Promise: returned as it is
                    /\ shared' = Append(shared,
                          [key |-> k, conn |-> "completed",
                           buffer |-> [kind |-> "value", exec |-> execCount + 1],
                           exec |-> execCount + 1])
                    /\ execCount' = execCount + 1
                    /\ settledCount' = [settledCount EXCEPT ![k] = @ + 1]
                    /\ callers' = Append(callers,
                          [h |-> id, key |-> k, st |-> "completed",
                           early |-> settledCount[k] = 0,
                           got |-> [kind |-> "value", exec |-> execCount + 1]])
                    /\ UNCHANGED executionCache
  /\ UNCHANGED methodKind

\* A caller subscribes to the Observable it was handed.
ShareSubscribe(c) ==
  /\ c \in DOMAIN callers
  /\ callers[c].st = "held"
  /\ LET s == callers[c].h IN
     CASE shared[s].conn = "cold" ->
            \* first subscriber (or first after a reset): the source is subscribed
            /\ shared' = [shared EXCEPT ![s].conn = "running", ![s].exec = execCount + 1]
            /\ execCount' = execCount + 1
            /\ callers' = [callers EXCEPT ![c].st = "subscribed"]
            /\ UNCHANGED executionCache
       [] shared[s].conn = "running" ->
            /\ callers' = [callers EXCEPT ![c].st = "subscribed"]
            /\ UNCHANGED <<shared, execCount, executionCache>>
       [] shared[s].conn = "completed" ->
            \* replay and complete at once; this subscriber's finalize runs
            /\ callers' = [callers EXCEPT ![c].st = "completed",
                                          ![c].got = shared[s].buffer]
            /\ executionCache' = cleanupCache(executionCache, shared[s].key)
            /\ UNCHANGED <<shared, execCount>>
  /\ UNCHANGED <<methodKind, invoked, settledCount>>

\* An unsubscription that tears the source of shared result s down.
unsubscribeSource_teardown(sh, s) ==
  [sh EXCEPT ![s].conn = "cold", ![s].buffer = NoOutcome]

\* shareReplay(bufferSize) is shareReplay({bufferSize, refCount: false}): the
\* subscription of the source outlives its subscribers.
unsubscribeSource(sh, s) == sh

\* A subscriber abandons the result: its finalize runs; the source, shared with
\* refCount false, keeps running.
ShareUnsubscribe(c) ==
  /\ c \in DOMAIN callers
  /\ methodKind = "observable"
  /\ callers[c].st = "subscribed"
  /\ callers' = [callers EXCEPT ![c].st = "unsubscribed"]
  /\ shared' = unsubscribeSource(shared, callers[c].h)
  /\ executionCache' = cleanupCache(executionCache, callers[c].key)
  /\ UNCHANGED <<methodKind, invoked, settledCount, execCount>>

\* The execution of shared result s settles with res ("value" or "error").
ShareSettle(s, res) ==
  /\ s \in DOMAIN shared
  /\ shared[s].conn = "running"
  /\ LET out == [kind |-> res, exec |-> shared[s].exec]
         act == ActiveSubscribers(s)
         k   == shared[s].key
     IN
     /\ callers' = [c \in DOMAIN callers |->
                      IF c \in act
                      THEN [callers[c] EXCEPT
                              !.st = IF res = "value" THEN "completed" ELSE "errored",
                              !.got = out]
                      ELSE callers[c]]
     /\ shared' = IF res = "value"
                  THEN [shared EXCEPT ![s].conn = "completed", ![s].buffer = out]
                  ELSE [shared EXCEPT ![s].conn = "cold", ![s].buffer = NoOutcome]
     /\ executionCache' = IF act # {} \/ methodKind = "promise"
                          THEN cleanupCache(executionCache, k)
                          ELSE executionCache
     /\ settledCount' = [settledCount EXCEPT ![k] = @ + 1]
  /\ UNCHANGED <<methodKind, invoked, execCount>>

ShareNext ==
  \/ \E k \in Keys : ShareCall(k) /\ UNCHANGED <<queueVars, retryVars, cacheVars, pollVars, bulkVars, replayVars, delayVars, memoVars, flagVars, wrapVars>>
  \/ \E c \in 1..MaxCalls : ShareSubscribe(c) /\ UNCHANGED <<queueVars, retryVars, cacheVars, pollVars, bulkVars, replayVars, delayVars, memoVars, flagVars, wrapVars>>
  \/ \E c \in 1..MaxCalls : ShareUnsubscribe(c) /\ UNCHANGED <<queueVars, retryVars, cacheVars, pollVars, bulkVars, replayVars, delayVars, memoVars, flagVars, wrapVars>>
  \/ \E s \in 1..MaxCalls, res \in {"value", "error"} :
        ShareSettle(s, res) /\ UNCHANGED <<queueVars, retryVars, cacheVars, pollVars, bulkVars, replayVars, delayVars, memoVars, flagVars, wrapVars>>

\* The executions of key k that are in flight.
InFlight(k) == {s \in DOMAIN shared : shared[s].key = k /\ shared[s].conn = "running"}

\* C1: N >= 2 calls with the same key, all made before the first execution of
\* that key settles, invoke originalMethod exactly once, and all their
\* subscribers receive one and the same outcome.
C1_DedupOnce ==
  \A k \in Keys :
    /\ settledCount[k] = 0 => invoked[k] <= 1
    /\ \A c, d \in DOMAIN callers :
         ( /\ callers[c].key = k /\ callers[d].key = k
           /\ callers[c].early /\ callers[d].early
           /\ callers[c].got # NoOutcome /\ callers[d].got # NoOutcome )
         => callers[c].got = callers[d].got

\* C2: at most one execution is in flight for a key, in every reachable state.
C2_SingleInFlight == \A k \in Keys : Cardinality(InFlight(k)) <= 1

\* C21: when a subscriber of a shared result unsubscribes before settlement,
\* the execution keeps running, the other subscribers stay subscribed to it,
\* and when it settles every subscriber it still has receives its outcome.
C21_AbandonKeepsExecution ==
  /\ [](\A c \in DOMAIN callers :
          callers[c].st = "subscribed" => shared[callers[c].h].conn = "running")
  /\ [][\A c \in DOMAIN callers :
          ShareUnsubscribe(c) =>
            /\ shared'[callers[c].h].conn = "running"
            /\ shared'[callers[c].h].exec = shared[callers[c].h].exec
            /\ \A d \in ActiveSubscribers(callers[c].h) \ {c} :
                  callers'[d].st = "subscribed"]_vars
  /\ [][\A s \in DOMAIN shared, res \in {"value", "error"} :
          ShareSettle(s, res) =>
            \A d \in ActiveSubscribers(s) :
              callers'[d].got = [kind |-> res, exec |-> shared[s].exec]]_vars

\* One subscriber of a shared result has unsubscribed and another one has
\* received the outcome of the same execution.
C21_Witness ==
  \E c, d \in DOMAIN callers :
    /\ c # d
    /\ callers[c].h = callers[d].h
    /\ callers[c].st = "unsubscribed"
    /\ callers[d].st \in {"completed", "errored"}
    /\ callers[d].got.kind \in {"value", "error"}
    /\ execCount = 1

\* The execution of shared result s has completed or failed.
Settled(s) ==
  \/ shared[s].conn = "completed"
  \/ shared[s].conn = "cold" /\ shared[s].exec # 0

\* C22: no key keeps the entry of a shared execution that has completed or
\* failed, so a call made after the settlement finds no entry to attach to and
\* invokes originalMethod again.
C22_NoResultAfterSettlement ==
  \A k \in Keys : executionCache[k] # 0 => ~Settled(executionCache[k])

\* An execution of k has settled with its subscriber served, the entry is gone
\* and a later call has invoked originalMethod a second time.
C22_Witness ==
  \E k \in Keys :
    /\ methodKind \in {"observable", "promise"}
    /\ settledCount[k] >= 1
    /\ invoked[k] = 2
    /\ \A c \in DOMAIN callers : callers[c].st # "unsubscribed"
    /\ \E c \in DOMAIN callers :
         callers[c].key = k /\ callers[c].got.kind \in {"value", "error"}
    /\ \E c \in DOMAIN callers : callers[c].key = k /\ ~callers[c].early

(***************************************************************************)
(*                              ShareReplay                                *)
(* One key of one instance of a method decorated with a duration D > 0.    *)
(* finalize sits after shareReplay: it runs for every subscriber, when the *)
(* shared result completes or fails and when the subscriber unsubscribes,  *)
(* and every run schedules a setTimeout that deletes the key.              *)
(***************************************************************************)
ReplayDuration == 2
MaxReplayTime == 4
MaxReplayCalls == 3

ReplayKinds == {"observable", "promise"}

NoReplayCall == [time |-> 0, invoked |-> FALSE, recent |-> FALSE, made |-> FALSE]

\* An execution completed less than the duration ago.
RecentlyCompleted == \E t \in srDone : srNow < t + ReplayDuration

\* cleanupCache with a duration > 0: setTimeout(() => instanceCache.delete(key),
\* duration).
scheduleCleanup(timers, now) == timers \cup {now + ReplayDuration}

\* descriptor.value: return the entry of the key, or invoke originalMethod and
\* store its shared result.
ReplayCall ==
  /\ Len(srCallers) < MaxReplayCalls
  /\ srLastCall' = [time |-> srNow, invoked |-> instancesCache = 0,
                    recent |-> RecentlyCompleted, made |-> TRUE]
  /\ IF instancesCache # 0
     THEN /\ srCallers' = Append(srCallers,
                [h |-> instancesCache,
                 st |-> IF srKind = "promise" THEN "promise" ELSE "held"])
          /\ UNCHANGED <<instancesCache, srShared, srInvoked>>
     ELSE /\ srInvoked' = srInvoked + 1
          /\ instancesCache' = Len(srShared) + 1
          /\ srShared' = Append(srShared,
                [conn |-> IF srKind = "promise" THEN "running" ELSE "cold"])
          /\ srCallers' = Append(srCallers,
                [h |-> Len(srShared) + 1,
                 st |-> IF srKind = "promise" THEN "promise" ELSE "held"])
  /\ UNCHANGED <<srKind, srNow, srTimers, srDone>>

\* A caller subscribes to the shared Observable it was handed.
ReplaySubscribe(c) ==
  /\ c \in DOMAIN srCallers
  /\ srCallers[c].st = "held"
  /\ LET s == srCallers[c].h IN
     CASE srShared[s].conn = "cold" ->
            /\ srShared' = [srShared EXCEPT ![s].conn = "running"]
            /\ srCallers' = [srCallers EXCEPT ![c].st = "subscribed"]
            /\ UNCHANGED srTimers
       [] srShared[s].conn = "running" ->
            /\ srCallers' = [srCallers EXCEPT ![c].st = "subscribed"]
            /\ UNCHANGED <<srShared, srTimers>>
       [] srShared[s].conn = "completed" ->
            \* replayed and completed at once: this subscriber's finalize runs
            /\ srCallers' = [srCallers EXCEPT ![c].st = "completed"]
            /\ srTimers' = scheduleCleanup(srTimers, srNow)
            /\ UNCHANGED srShared
  /\ UNCHANGED <<srKind, srNow, instancesCache, srInvoked, srDone, srLastCall>>

\* A subscriber unsubscribes before the settlement: its finalize runs, the
\* source (refCount false) keeps running.
ReplayUnsubscribe(c) ==
  /\ c \in DOMAIN srCallers
  /\ srCallers[c].st = "subscribed"
  /\ srCallers' = [srCallers EXCEPT ![c].st = "unsubscribed"]
  /\ srTimers' = scheduleCleanup(srTimers, srNow)
  /\ UNCHANGED <<srKind, srNow, instancesCache, srShared, srInvoked, srDone, srLastCall>>

\* The execution of shared result s settles: the finalize of every subscriber
\* it has (for a Promise: of toPromise) runs; a failure resets shareReplay.
ReplaySettle(s, res) ==
  /\ s \in DOMAIN srShared
  /\ srShared[s].conn = "running"
  /\ LET act == {c \in DOMAIN srCallers :
                   srCallers[c].h = s /\ srCallers[c].st = "subscribed"} IN
     /\ srCallers' = [c \in DOMAIN srCallers |->
                        IF c \in act
                        THEN [srCallers[c] EXCEPT
                                !.st = IF res = "value" THEN "completed" ELSE "errored"]
                        ELSE srCallers[c]]
     /\ srTimers' = IF act # {} \/ srKind = "promise"
                    THEN scheduleCleanup(srTimers, srNow) ELSE srTimers
  /\ srShared' = [srShared EXCEPT
                    ![s].conn = IF res = "value" THEN "completed" ELSE "cold"]
  /\ srDone' = IF res = "value" THEN srDone \cup {srNow} ELSE srDone
  /\ UNCHANGED <<srKind, srNow, instancesCache, srInvoked, srLastCall>>

\* A setTimeout callback of cleanupCache runs: whatever entry the key has now
\* is deleted.
ReplayTimerFires ==
  /\ \E t \in srTimers :
       /\ t <= srNow
       /\ srTimers' = srTimers \ {t}
  /\ instancesCache' = 0
  /\ UNCHANGED <<srKind, srNow, srShared, srCallers, srInvoked, srDone, srLastCall>>

\* Time passes; a timer that is due runs first.
ReplayTick ==
  /\ srNow < MaxReplayTime
  /\ \A t \in srTimers : t > srNow
  /\ srNow' = srNow + 1
  /\ UNCHANGED <<srKind, instancesCache, srShared, srCallers, srTimers, srInvoked,
                 srDone, srLastCall>>

ReplayNext ==
  \/ ReplayCall /\ UNCHANGED <<shareVars, queueVars, retryVars, cacheVars, pollVars, bulkVars, delayVars, memoVars, flagVars, wrapVars>>
  \/ \E c \in 1..MaxReplayCalls :
        ReplaySubscribe(c) /\ UNCHANGED <<shareVars, queueVars, retryVars, cacheVars, pollVars, bulkVars, delayVars, memoVars, flagVars, wrapVars>>
  \/ \E c \in 1..MaxReplayCalls :
        ReplayUnsubscribe(c) /\ UNCHANGED <<shareVars, queueVars, retryVars, cacheVars, pollVars, bulkVars, delayVars, memoVars, flagVars, wrapVars>>
  \/ \E s \in 1..MaxReplayCalls, res \in {"value", "error"} :
        ReplaySettle(s, res) /\ UNCHANGED <<shareVars, queueVars, retryVars, cacheVars, pollVars, bulkVars, delayVars, memoVars, flagVars, wrapVars>>
  \/ ReplayTimerFires /\ UNCHANGED <<shareVars, queueVars, retryVars, cacheVars, pollVars, bulkVars, delayVars, memoVars, flagVars, wrapVars>>
  \/ ReplayTick /\ UNCHANGED <<shareVars, queueVars, retryVars, cacheVars, pollVars, bulkVars, delayVars, memoVars, flagVars, wrapVars>>

\* C23: with a duration D > 0, a call made less than D after an execution of
\* its key completed returns the cached result without invoking
\* originalMethod, whatever executions and subscribers the key had before.
C23_ReplayRetention ==
  srLastCall.made /\ srLastCall.recent => ~srLastCall.invoked

(***************************************************************************)
(*                            ObservableQueue                              *)
(***************************************************************************)
OpKinds == {"observable", "promise", "value", "throw"}
MaxItems == 3

IsPrefix(s, t) == Len(s) <= Len(t) /\ \A j \in 1..Len(s) : s[j] = t[j]

RemoveAt(s, n) == [j \in 1..(Len(s) - 1) |-> IF j < n THEN s[j] ELSE s[j + 1]]

\* What an item's own observer receives; a closed (unsubscribed) observer
\* ignores it.
Deliver(item, what) ==
  IF item.cancelled THEN item ELSE [item EXCEPT !.handle = what]

\* mergeMap in the place of concatMap: every item is projected at once.
WorkerIdle_mergeMap == TRUE

\* concatMap: a new item is projected at once only when no inner observable is
\* subscribed; otherwise it is buffered.
WorkerIdle == qActive = 0

\* A worker that takes the newest buffered item first.
BufferPick_lifo(buf) == Len(buf)

\* concatMap takes the buffered items first in, first out.
BufferPick(buf) == 1

\* concatMap's worker: project the buffered items one after the other until
\* one of them returns an observable that stays subscribed.
\*   "value": observer.next/complete, of(result) completes at once;
\*   "throw": caught, observer.error, of(null) completes at once;
\*   "observable", "promise": the inner observable is subscribed.
RECURSIVE RunWorker(_, _, _)
RunWorker(items, buf, started) ==
  IF buf = <<>>
  THEN [items |-> items, buf |-> buf, started |-> started, active |-> 0]
  ELSE LET n == BufferPick(buf)
           i == buf[n]
           rest == RemoveAt(buf, n)
       IN CASE items[i].kind = "value" ->
                 RunWorker([items EXCEPT ![i] = [Deliver(@, "value") EXCEPT !.st = "done"]],
                           rest, Append(started, i))
            [] items[i].kind = "throw" ->
                 RunWorker([items EXCEPT ![i] = [Deliver(@, "error") EXCEPT !.st = "failed"]],
                           rest, Append(started, i))
            [] OTHER ->
                 [items |-> [items EXCEPT ![i].st = "running"], buf |-> rest,
                  started |-> Append(started, i), active |-> i]

\* descriptor.value: returns a cold Observable; nothing is enqueued yet.
QueueCall(kind) ==
  /\ Len(qItems) < MaxItems
  /\ qItems' = Append(qItems,
        [kind |-> kind, st |-> "created", handle |-> "pending", cancelled |-> FALSE])
  /\ UNCHANGED <<qEnqueued, qStarted, qBuffer, qActive, qWorkerAlive>>

\* The caller subscribes: queue.next(item).
QueueSubscribe(i) ==
  /\ i \in DOMAIN qItems
  /\ qItems[i].st = "created"
  /\ qEnqueued' = Append(qEnqueued, i)
  /\ IF ~qWorkerAlive
     THEN \* the Subject has no observer left: the item goes nowhere
          /\ qItems' = [qItems EXCEPT ![i].st = "dropped"]
          /\ UNCHANGED <<qStarted, qBuffer, qActive>>
     ELSE IF ~WorkerIdle
     THEN /\ qItems' = [qItems EXCEPT ![i].st = "queued"]
          /\ qBuffer' = Append(qBuffer, i)
          /\ UNCHANGED <<qStarted, qActive>>
     ELSE LET r == RunWorker([qItems EXCEPT ![i].st = "queued"],
                             Append(qBuffer, i), qStarted)
          IN /\ qItems' = r.items
             /\ qBuffer' = r.buf
             /\ qStarted' = r.started
             /\ qActive' = r.active
  /\ UNCHANGED qWorkerAlive

\* The caller unsubscribes: the teardown only logs; the item stays where it is.
QueueUnsubscribe(i) ==
  /\ i \in DOMAIN qItems
  /\ qItems[i].st \in {"queued", "running", "dropped"}
  /\ ~qItems[i].cancelled
  /\ qItems' = [qItems EXCEPT ![i].cancelled = TRUE]
  /\ UNCHANGED <<qEnqueued, qStarted, qBuffer, qActive, qWorkerAlive>>

\* The running item's observable emits and completes: tap hands the value and
\* the completion to the item's observer, concatMap goes on with the buffer.
QueueItemSucceeds ==
  /\ qActive # 0
  /\ LET i == qActive
         r == RunWorker([qItems EXCEPT ![i] = [Deliver(@, "value") EXCEPT !.st = "done"]],
                        qBuffer, qStarted)
     IN /\ qItems' = r.items
        /\ qBuffer' = r.buf
        /\ qStarted' = r.started
        /\ qActive' = r.active
  /\ UNCHANGED <<qEnqueued, qWorkerAlive>>

\* The running item's observable errors: tap hands the error to the item's
\* observer and passes it on; concatMap errors the outer subscription, which
\* subscribe() made without an error handler: the worker is gone.
QueueItemFails ==
  /\ qActive # 0
  /\ qItems' = [qItems EXCEPT ![qActive] = [Deliver(@, "error") EXCEPT !.st = "failed"]]
  /\ qActive' = 0
  /\ qWorkerAlive' = FALSE
  /\ UNCHANGED <<qEnqueued, qStarted, qBuffer>>

QueueNext ==
  \/ \E kind \in OpKinds : QueueCall(kind) /\ UNCHANGED <<shareVars, retryVars, cacheVars, pollVars, bulkVars, replayVars, delayVars, memoVars, flagVars, wrapVars>>
  \/ \E i \in 1..MaxItems : QueueSubscribe(i) /\ UNCHANGED <<shareVars, retryVars, cacheVars, pollVars, bulkVars, replayVars, delayVars, memoVars, flagVars, wrapVars>>
  \/ \E i \in 1..MaxItems : QueueUnsubscribe(i) /\ UNCHANGED <<shareVars, retryVars, cacheVars, pollVars, bulkVars, replayVars, delayVars, memoVars, flagVars, wrapVars>>
  \/ QueueItemSucceeds /\ UNCHANGED <<shareVars, retryVars, cacheVars, pollVars, bulkVars, replayVars, delayVars, memoVars, flagVars, wrapVars>>
  \/ QueueItemFails /\ UNCHANGED <<shareVars, retryVars, cacheVars, pollVars, bulkVars, replayVars, delayVars, memoVars, flagVars, wrapVars>>

Running == {i \in DOMAIN qItems : qItems[i].st = "running"}

\* C3: the operations of one queue are started in the order in which their
\* items were enqueued: the start order is always a prefix of the enqueue order.
C3_QueueOrder == IsPrefix(qStarted, qEnqueued)

\* Three items, enqueued in another order than they were called, two of them
\* behind a running one, all started.
C3_Witness ==
  /\ Len(qStarted) = 3
  /\ qEnqueued = <<2, 3, 1>>
  /\ qItems[2].kind = "observable" /\ qItems[3].kind = "promise"
  /\ qItems[1].st = "running"

\* C4: at most one item of the queue is executing, and an item is started only
\* when every item started before it has run to completion.
C4_MutualExclusion ==
  /\ Cardinality(Running) <= 1
  /\ \A j \in 1..(Len(qStarted) - 1) : qItems[qStarted[j]].st \in {"done", "failed"}

\* An item enqueued behind a running one is running after that one completed.
C4_Witness ==
  /\ Len(qStarted) >= 2
  /\ qItems[qStarted[1]].kind = "observable" /\ qItems[qStarted[1]].st = "done"
  /\ qItems[qStarted[2]].st = "running"
  /\ qBuffer # <<>>

\* C5: a failed item does not stop the queue: whenever no item is executing,
\* every item enqueued so far has been started and has run to completion.
C5_FailureIsolated ==
  qActive = 0 =>
    \A j \in 1..Len(qEnqueued) : qItems[qEnqueued[j]].st \in {"done", "failed"}

\* The items waiting in concatMap's buffer.
Buffered == {qBuffer[j] : j \in 1..Len(qBuffer)}

\* C24: an item cancelled after it was enqueued and before it was started is
\* no longer in the queue and its operation is never started; the cancellation
\* leaves the other items as they were.
C24_CancelRemovesQueued ==
  /\ [](\A i \in DOMAIN qItems :
          qItems[i].cancelled /\ qItems[i].st = "queued" => i \notin Buffered)
  /\ [][\A i \in DOMAIN qItems :
          qItems[i].cancelled /\ qItems[i].st = "queued" => qItems'[i].st = "queued"]_vars
  /\ [][\A i \in DOMAIN qItems :
          QueueUnsubscribe(i) =>
            \A j \in DOMAIN qItems \ {i} :
              qItems'[j] = qItems[j] /\ (j \in Buffered <=> j \in Buffered')]_vars

(***************************************************************************)
(*                               SmartRetry                                *)
(***************************************************************************)
Strategies == {"immediate", "fixed-delay", "exponential", "fibonacci", "random",
               "incremental"}
RetryKinds == {"observable", "promise", "value"}
\* An HTTP error with a status of retryStatusCodes, one with another status,
\* and a TypeError whose message names the network.
Errors == {"e503", "e400", "network"}
\* No retryPredicate, or one that accepts exactly the errors of status 400.
Predicates == {"none", "only400"}
\* A callback is not configured, returns, or throws.
CallbackModes == {"absent", "returns", "throws"}
MaxRetriesBound == 2
InitialDelay == 1
MaxDelay == 4
Increment == 2

RetryConfigs ==
  [maxRetries : 0..MaxRetriesBound, kind : RetryKinds, strategy : Strategies,
   predicate : Predicates, fallback : BOOLEAN,
   beforeRetry : CallbackModes, onFailure : CallbackModes]

NoRetryConfig ==
  [maxRetries |-> 0, kind |-> "value", strategy |-> "immediate", predicate |-> "none",
   fallback |-> FALSE, beforeRetry |-> "absent", onFailure |-> "absent"]

NoResult == [kind |-> "none", err |-> "none"]

Min(a, b) == IF a <= b THEN a ELSE b

RECURSIVE Pow2(_)
Pow2(n) == IF n <= 0 THEN 1 ELSE 2 * Pow2(n - 1)

RECURSIVE FibLoop(_, _, _, _)
FibLoop(i, n, a, b) == IF i > n THEN b ELSE FibLoop(i + 1, n, b, a + b)

fibonacciNumber(n) ==
  IF n <= 0 THEN 0 ELSE IF n = 1 THEN 1 ELSE FibLoop(2, n, 0, 1)

\* A backoff that is not capped by maxDelay.
calculateDelay_uncapped(strategy, retryCount, initialDelay, maxDelay, increment) ==
  CASE strategy = "immediate"   -> {0}
    [] strategy = "fixed-delay" -> {initialDelay}
    [] strategy = "exponential" -> {Pow2(retryCount) * initialDelay}
    [] strategy = "fibonacci"   -> {fibonacciNumber(retryCount + 1) * initialDelay}
    [] strategy = "random"      -> initialDelay..maxDelay
    [] strategy = "incremental" -> {initialDelay + retryCount * increment}
    [] OTHER                    -> {initialDelay}

\* The delays calculateDelay(retryCount) can return: one value, except for
\* 'random', which draws from initialDelay..maxDelay.
calculateDelay(strategy, retryCount, initialDelay, maxDelay, increment) ==
  CASE strategy = "immediate"   -> {0}
    [] strategy = "fixed-delay" -> {initialDelay}
    [] strategy = "exponential" -> {Min(Pow2(retryCount) * initialDelay, maxDelay)}
    [] strategy = "fibonacci"   ->
         {Min(fibonacciNumber(retryCount + 1) * initialDelay, maxDelay)}
    [] strategy = "random"      -> initialDelay..maxDelay
    [] strategy = "incremental" -> {Min(initialDelay + retryCount * increment, maxDelay)}
    [] OTHER                    -> {initialDelay}

shouldRetry(cfg, error) ==
  IF cfg.predicate # "none"
  THEN error = "e400"
  ELSE error \in {"e503", "network"}

\* catchError at the end of the pipe: the fallback value if one is configured,
\* the error that arrived otherwise.
Exhausted(cfg, error) ==
  IF cfg.fallback THEN [kind |-> "fallback", err |-> "none"]
  ELSE [kind |-> "error", err |-> error]

\* descriptor.value: invoke originalMethod; the caller subscribes the result.
RetryCall ==
  /\ rPc = "idle"
  /\ rOpRuns' = 1
  /\ IF rCfg.kind = "value"
     THEN /\ rPc' = "done"
          /\ rOutcome' = [kind |-> "value", err |-> "none"]
     ELSE /\ rPc' = "attempting"
          /\ UNCHANGED rOutcome
  /\ UNCHANGED <<rCfg, rAttempt, rLastError, rPromise, rDelay>>

\* The current attempt emits its value. A Promise settles once: from(promise)
\* subscribed again repeats the settlement it already has.
RetryAttemptSucceeds ==
  /\ rPc = "attempting"
  /\ rCfg.kind = "promise" => rPromise \in {"pending", "value"}
  /\ rPromise' = IF rCfg.kind = "promise" THEN "value" ELSE rPromise
  /\ rPc' = "done"
  /\ rOutcome' = [kind |-> "value", err |-> "none"]
  /\ UNCHANGED <<rCfg, rAttempt, rOpRuns, rLastError, rDelay>>

\* The current attempt fails with error e: the mergeMap of retryWhen decides.
RetryAttemptFails(e) ==
  /\ rPc = "attempting"
  /\ rCfg.kind = "promise" => rPromise \in {"pending", e}
  /\ rPromise' = IF rCfg.kind = "promise" THEN e ELSE rPromise
  /\ rLastError' = e
  /\ LET index == rAttempt
         retryCount == index + 1
     IN IF retryCount > rCfg.maxRetries \/ ~shouldRetry(rCfg, e)
        THEN \* onFailure, then throwError(error); a throwing callback errors
             \* the notifier with its own error
             /\ rOutcome' = Exhausted(rCfg,
                               IF rCfg.onFailure = "throws" THEN "callbackError" ELSE e)
             /\ rPc' = "done"
             /\ UNCHANGED rDelay
        ELSE \E d \in calculateDelay(rCfg.strategy, index, InitialDelay, MaxDelay,
                                     Increment) :
               IF rCfg.beforeRetry = "throws"
               THEN /\ rOutcome' = Exhausted(rCfg, "callbackError")
                    /\ rPc' = "done"
                    /\ UNCHANGED rDelay
               ELSE /\ rPc' = "waiting"
                    /\ rDelay' = d
                    /\ UNCHANGED rOutcome
  /\ UNCHANGED <<rCfg, rAttempt, rOpRuns>>

\* timer(delayTime) emits: retryWhen subscribes the source again. An Observable
\* is executed again; from(promise) only reads the settled Promise again.
RetryTimerFires ==
  /\ rPc = "waiting"
  /\ rPc' = "attempting"
  /\ rAttempt' = rAttempt + 1
  /\ rOpRuns' = IF rCfg.kind = "observable" THEN rOpRuns + 1 ELSE rOpRuns
  /\ UNCHANGED <<rCfg, rLastError, rPromise, rDelay, rOutcome>>

RetryNext ==
  \/ RetryCall /\ UNCHANGED <<shareVars, queueVars, cacheVars, pollVars, bulkVars, replayVars, delayVars, memoVars, flagVars, wrapVars>>
  \/ RetryAttemptSucceeds /\ UNCHANGED <<shareVars, queueVars, cacheVars, pollVars, bulkVars, replayVars, delayVars, memoVars, flagVars, wrapVars>>
  \/ \E e \in Errors : RetryAttemptFails(e) /\ UNCHANGED <<shareVars, queueVars, cacheVars, pollVars, bulkVars, replayVars, delayVars, memoVars, flagVars, wrapVars>>
  \/ RetryTimerFires /\ UNCHANGED <<shareVars, queueVars, cacheVars, pollVars, bulkVars, replayVars, delayVars, memoVars, flagVars, wrapVars>>

\* The call ended because an attempt failed.
RetryFailed == rPc = "done" /\ rOutcome.kind \in {"fallback", "error"}

\* C8: after attempt n fails a further attempt of the wrapped operation is made
\* exactly when n < maxRetries and the error is eligible; otherwise the call
\* ends; the operation is attempted at most maxRetries + 1 times.
C8_RetryStateMachine ==
  /\ rPc = "waiting" => rAttempt < rCfg.maxRetries /\ shouldRetry(rCfg, rLastError)
  /\ RetryFailed => ~(rAttempt < rCfg.maxRetries /\ shouldRetry(rCfg, rLastError))
  /\ rPc = "attempting" => rOpRuns = rAttempt + 1
  /\ rOpRuns <= rCfg.maxRetries + 1

\* C9: every retry attempt executes the wrapped operation again, for Observable
\* and Promise alike: the operation has run once per attempt, and a retry can
\* succeed after a failed attempt.
C9_RetryReinvokes ==
  /\ rPc \in {"attempting", "done"} => rOpRuns = rAttempt + 1
  /\ rPc = "attempting" /\ rAttempt > 0 => ENABLED RetryAttemptSucceeds

\* C10: when the attempts are exhausted the call succeeds with the fallback
\* value if one is configured and fails with the error of the last attempt
\* otherwise; the caller sees nothing but the value, the fallback value or the
\* operation's own error.
C10_Exhaustion ==
  rPc = "done" =>
    \/ rOutcome = [kind |-> "value", err |-> "none"]
    \/ rCfg.fallback /\ rOutcome = [kind |-> "fallback", err |-> "none"]
    \/ ~rCfg.fallback /\ rOutcome = [kind |-> "error", err |-> rLastError]

\* ---- calculateDelay over the retries 0, 1, 2, ... of one call ----
MaxDelayIndex == 6

\* The deterministic strategies with delays in milliseconds.
DelayConfigs ==
  [strategy : Strategies \ {"random"}, initialDelay : {100, 250, 1000},
   maxDelay : {1000, 3000}, increment : {100}]

NoDelayConfig ==
  [strategy |-> "immediate", initialDelay |-> 0, maxDelay |-> 0, increment |-> 0]

\* The mergeMap of retryWhen computes the delay before the next retry:
\* calculateDelay(index), index counting the failures from 0.
DelayStep ==
  /\ Len(dDelays) < MaxDelayIndex
  /\ \E d \in calculateDelay(dCfg.strategy, Len(dDelays), dCfg.initialDelay,
                               dCfg.maxDelay, dCfg.increment) :
       dDelays' = Append(dDelays, d)
  /\ UNCHANGED dCfg

DelayNext ==
  DelayStep /\ UNCHANGED <<shareVars, queueVars, retryVars, cacheVars, pollVars, bulkVars, replayVars, memoVars, flagVars, wrapVars>>

\* C26: with strategy 'exponential' the delay before retry n (from 0) is
\* min(2^n * initialDelay, maxDelay); with initialDelay 100 and maxDelay 1000
\* the delays of the retries 0..5 are 100, 200, 400, 800, 1000, 1000.
C26_ExponentialBackoff ==
  dCfg.strategy = "exponential" =>
    /\ \A n \in 0..(Len(dDelays) - 1) :
         dDelays[n + 1] = Min((2 ^ n) * dCfg.initialDelay, dCfg.maxDelay)
    /\ dCfg.initialDelay = 100 /\ dCfg.maxDelay = 1000 =>
         \A n \in 1..Min(Len(dDelays), 6) :
           dDelays[n] = <<100, 200, 400, 800, 1000, 1000>>[n]

\* The six delays of the example have been computed.
C26_Witness ==
  /\ dCfg.strategy = "exponential"
  /\ dCfg.initialDelay = 100 /\ dCfg.maxDelay = 1000
  /\ Len(dDelays) >= 6
  /\ dDelays[5] = 1000 /\ dDelays[6] = 1000

\* What the mergeMap of retryWhen decides after a failure of attempt n with
\* error e when no callback is configured: retry or give up.
RetriesAfter(n, e) == n + 1 <= rCfg.maxRetries /\ shouldRetry(rCfg, e)

\* C25: beforeRetry and onFailure are side effects only: whatever they do, the
\* call waits for a retry, with the delay of the strategy, exactly when it
\* would without callbacks, and ends with the outcome it would have without
\* them.
C25_CallbacksAreSideEffects ==
  /\ rPc = "waiting" =>
        /\ RetriesAfter(rAttempt, rLastError)
        /\ rDelay \in calculateDelay(rCfg.strategy, rAttempt, InitialDelay, MaxDelay,
                                     Increment)
  /\ RetryFailed =>
        /\ ~RetriesAfter(rAttempt, rLastError)
        /\ rOutcome = Exhausted(rCfg, rLastError)

(***************************************************************************)
(*                            ObservableCache                              *)
(***************************************************************************)
AllCacheKeys == {"x", "y", "z"}
Groups == {"g1", "g2"}
MaxCacheCalls == 2
MaxTime == 3
Ttl == 2
MaxSize == 2
MaxAdmin == 1
\* The value of a placeholder item (null) and the cached error object.
NullValue == 0
ErrorValue == -1

\* options.cacheGroup of the decorated method that produces the key.
cacheGroupOf(k) == IF k = "x" THEN "g1" ELSE IF k = "y" THEN "g2" ELSE "none"

NoEntry ==
  [present |-> FALSE, value |-> NullValue, timestamp |-> 0, expiresAt |-> 0,
   group |-> "none", loading |-> FALSE, oid |-> 0]

NotStored == [live |-> FALSE, val |-> NullValue, at |-> 0]

NoInsert == [happened |-> FALSE, full |-> FALSE, evicted |-> "", lru |-> ""]

NoAdmin == [op |-> "none", arg |-> "", removed |-> {}, kept |-> {}]

NoCall ==
  [key |-> "", time |-> 0, ret |-> "", val |-> NullValue, inv |-> 0,
   pre |-> NotStored, preLoading |-> FALSE]

\* A call whose Observable has terminated or was answered at once.
Finished == [key |-> "", ret |-> "", st |-> "finished", item |-> 0]

CacheConfigs ==
  [ttl : {0, Ttl}, stale : BOOLEAN, refresh : BOOLEAN, sliding : BOOLEAN,
   maxCacheSize : {0}, shareRequests : BOOLEAN, cacheErrors : BOOLEAN,
   scope : {"memory"}, keys : {{"x", "y"}}, maxCalls : {MaxCacheCalls}, maxTime : {MaxTime}, maxAdmin : {MaxAdmin}]

\* The options left at their defaults but for a ttl and a maxCacheSize.
CacheLruConfigs ==
  [ttl : {Ttl}, stale : {TRUE}, refresh : {FALSE}, sliding : {FALSE},
   maxCacheSize : {MaxSize}, shareRequests : {TRUE}, cacheErrors : {FALSE},
   scope : {"memory"}, keys : {AllCacheKeys}, maxCalls : {MaxCacheCalls + 1}, maxTime : {MaxTime}, maxAdmin : {MaxAdmin}]

\* A method cached in sessionStorage (or localStorage) under one key.
CacheStorageConfigs ==
  [ttl : {Ttl}, stale : BOOLEAN, refresh : {FALSE}, sliding : BOOLEAN,
   maxCacheSize : {0}, shareRequests : {TRUE}, cacheErrors : {FALSE},
   scope : {"session"}, keys : {{"x"}}, maxCalls : {MaxCacheCalls}, maxTime : {MaxTime},
   maxAdmin : {MaxAdmin + 1}]

NoCacheConfig ==
  [ttl |-> 0, stale |-> FALSE, refresh |-> FALSE, sliding |-> FALSE,
   maxCacheSize |-> 0, shareRequests |-> FALSE, cacheErrors |-> FALSE,
   scope |-> "memory", keys |-> {}, maxCalls |-> 0, maxTime |-> 0, maxAdmin |-> 0]

\* ---- the Map lruKeys: entries in insertion order ----
LruHas(lru, k) == \E j \in 1..Len(lru) : lru[j].key = k

LruSet(lru, k, t) ==
  IF LruHas(lru, k)
  THEN [j \in 1..Len(lru) |-> IF lru[j].key = k THEN [key |-> k, time |-> t] ELSE lru[j]]
  ELSE Append(lru, [key |-> k, time |-> t])

LruDelete(lru, k) == SelectSeq(lru, LAMBDA e : e.key # k)

\* The loop of setCachedValue: the first key whose time is below every time
\* seen before it, starting from oldestTime = Date.now(); '' if there is none.
RECURSIVE OldestLoop(_, _, _, _)
OldestLoop(lru, j, oldestKey, oldestTime) ==
  IF j > Len(lru) THEN oldestKey
  ELSE IF lru[j].time < oldestTime
       THEN OldestLoop(lru, j + 1, lru[j].key, lru[j].time)
       ELSE OldestLoop(lru, j + 1, oldestKey, oldestTime)

OldestKey(lru, now) == OldestLoop(lru, 1, "", now)

CacheSize(mc) == Cardinality({k \in DOMAIN mc : mc[k].present})

\* JSON.stringify(cacheItem) and JSON.parse(stored): value, timestamp, group
\* and expiresAt survive; the parsed item is a new object without loading$.
ToJson(item) ==
  [present |-> TRUE, value |-> item.value, timestamp |-> item.timestamp,
   expiresAt |-> item.expiresAt, group |-> item.group, loading |-> FALSE, oid |-> 0]

FromJson(json, oid) == [json EXCEPT !.oid = oid]

\* storage.setItem(prefix:key, JSON.stringify(item)) when the scope is not
\* 'memory'; nothing is written when the backend throws.
storageSet(storage, key, item, cfg, throws) ==
  IF cfg.scope # "memory" /\ ~throws THEN [storage EXCEPT ![key] = ToJson(item)]
  ELSE storage

\* getCachedValue(key): the item of the memory cache, else the item parsed
\* from the storage backend (copied into the memory cache), else null; a
\* backend that throws is read as a miss.
getCachedValue(key, readThrows) ==
  IF memoryCache[key].present
  THEN [item |-> memoryCache[key], mc |-> memoryCache,
        lru |-> LruSet(lruKeys, key, cNow), oid |-> cNextOid]
  ELSE IF cCfg.scope # "memory" /\ ~readThrows /\ cStorage[key].present
  THEN LET parsed == FromJson(cStorage[key], cNextOid)
       IN [item |-> parsed, mc |-> [memoryCache EXCEPT ![key] = parsed],
           lru |-> LruSet(lruKeys, key, cNow), oid |-> cNextOid + 1]
  ELSE [item |-> NoEntry, mc |-> memoryCache, lru |-> lruKeys, oid |-> cNextOid]

\* setCachedValue(key, value, group) on the store S = [mc, lru, groups, stored,
\* oid]: evict when the store is full, then set the item, its time of use and
\* its group. "stored" and "insert" record what happened for the properties.
setCachedValue(S, key, value, group, now, cfg) ==
  LET full   == cfg.maxCacheSize # 0 /\ CacheSize(S.mc) >= cfg.maxCacheSize
      oldest == IF full THEN OldestKey(S.lru, now) ELSE ""
      evict  == oldest # ""
      mc1    == IF evict THEN [S.mc EXCEPT ![oldest] = NoEntry] ELSE S.mc
      lru1   == IF evict THEN LruDelete(S.lru, oldest) ELSE S.lru
      gr1    == IF evict THEN [g \in DOMAIN S.groups |-> S.groups[g] \ {oldest}]
                ELSE S.groups
      st1    == IF evict THEN [S.stored EXCEPT ![oldest] = NotStored] ELSE S.stored
      item   == [present |-> TRUE, value |-> value, timestamp |-> now,
                 expiresAt |-> now + cfg.ttl, group |-> group, loading |-> FALSE,
                 oid |-> S.oid]
  IN [mc     |-> [mc1 EXCEPT ![key] = item],
      lru    |-> LruSet(lru1, key, now),
      groups |-> IF group # "none" THEN [gr1 EXCEPT ![group] = @ \cup {key}] ELSE gr1,
      stored |-> [st1 EXCEPT ![key] = [live |-> TRUE, val |-> value, at |-> now]],
      oid    |-> S.oid + 1,
      insert |-> [happened |-> TRUE, full |-> full, evicted |-> oldest,
                  lru |-> IF S.lru = <<>> THEN "" ELSE
                          (LET m == CHOOSE j \in 1..Len(S.lru) :
                                      /\ \A i \in 1..Len(S.lru) : S.lru[j].time <= S.lru[i].time
                                      /\ \A i \in 1..(j - 1) : S.lru[i].time > S.lru[j].time
                           IN S.lru[m].key)]]

\* What fetchFreshData does to the store when shareRequests is set: a
\* placeholder item when the call found none (captured = 0), else loading$ is
\* set on the item the call found, which is in the store only if the key still
\* holds that very object.
fetchFreshData(mc, key, captured, now, cfg, oid) ==
  IF ~cfg.shareRequests THEN mc
  ELSE IF captured = 0
  THEN [mc EXCEPT ![key] =
          [present |-> TRUE, value |-> NullValue, timestamp |-> now,
           expiresAt |-> now + cfg.ttl, group |-> cacheGroupOf(key),
           loading |-> TRUE, oid |-> oid]]
  ELSE IF mc[key].present /\ mc[key].oid = captured
  THEN [mc EXCEPT ![key].loading = TRUE]
  ELSE mc

\* finalize of result$: delete loading$ of whatever item the key has now.
finalizeFetch(mc, key) ==
  IF mc[key].present THEN [mc EXCEPT ![key].loading = FALSE] ELSE mc

\* A validity test that still accepts the item in its last millisecond.
IsValid_inclusive(item, now) == item.expiresAt >= now

\* The validity test of descriptor.value.
IsValid(item, now) == item.expiresAt > now

\* descriptor.value after getCachedValue: what is returned ("join": loading$,
\* "hit": of(value), "stale": of(value) beside a background fetch, "staleTap":
\* of(value) that schedules the refresh when subscribed, "fresh": result$), the
\* store afterwards, the invocations of originalMethod and the background
\* subscriptions made.
CallOutcome(k, G, writeThrows) ==
  LET item == G.item
      mcF  == fetchFreshData(G.mc, k, item.oid, cNow, cCfg, G.oid)
      slid == [G.mc EXCEPT ![k].expiresAt = cNow + cCfg.ttl]
  IN
  IF cCfg.shareRequests /\ item.present /\ item.loading
  THEN [ret |-> "join", val |-> NullValue, mc |-> G.mc, inv |-> 0, bg |-> 0,
        oid |-> G.oid, storage |-> cStorage]
  ELSE IF item.present /\ IsValid(item, cNow)
  THEN IF cCfg.sliding
       THEN IF cCfg.scope # "memory" /\ writeThrows
            THEN [ret |-> "threw", val |-> NullValue, mc |-> slid, inv |-> 0, bg |-> 0,
                  oid |-> G.oid, storage |-> cStorage]
            ELSE [ret |-> "hit", val |-> item.value, mc |-> slid, inv |-> 0, bg |-> 0,
                  oid |-> G.oid,
                  storage |-> storageSet(cStorage, k, slid[k], cCfg, FALSE)]
       ELSE [ret |-> "hit", val |-> item.value, mc |-> G.mc, inv |-> 0, bg |-> 0,
             oid |-> G.oid, storage |-> cStorage]
  ELSE IF item.present
  THEN IF cCfg.refresh
       THEN IF cCfg.stale
            THEN [ret |-> "stale", val |-> item.value, mc |-> mcF, inv |-> 1, bg |-> 1,
                  oid |-> G.oid, storage |-> cStorage]
            ELSE [ret |-> "fresh", val |-> NullValue, mc |-> mcF, inv |-> 2, bg |-> 1,
                  oid |-> G.oid, storage |-> cStorage]
       ELSE IF cCfg.stale
            THEN [ret |-> "staleTap", val |-> item.value, mc |-> G.mc,
                  inv |-> 0, bg |-> 0, oid |-> G.oid, storage |-> cStorage]
            ELSE [ret |-> "fresh", val |-> NullValue, mc |-> mcF, inv |-> 1, bg |-> 0,
                  oid |-> G.oid, storage |-> cStorage]
  ELSE [ret |-> "fresh", val |-> NullValue, mc |-> mcF, inv |-> 1, bg |-> 0,
        oid |-> IF cCfg.shareRequests THEN G.oid + 1 ELSE G.oid, storage |-> cStorage]

\* A call of the decorated method with arguments that give key k; the
\* storage backend may throw when read and when written.
CacheCall(k, readThrows, writeThrows) ==
  /\ k \in cCfg.keys
  /\ Len(cCalls) < cCfg.maxCalls
  /\ readThrows \/ writeThrows => cCfg.scope # "memory"
  /\ LET G == getCachedValue(k, readThrows)
         item == G.item
         r == CallOutcome(k, G, writeThrows)
         \* an item parsed from the storage backend is a stored value
         pre == IF ~memoryCache[k].present /\ item.present
                THEN [live |-> TRUE, val |-> item.value, at |-> item.timestamp]
                ELSE cStored[k]
     IN
     /\ memoryCache' = r.mc
     /\ lruKeys' = G.lru
     /\ cStorage' = r.storage
     /\ cInvoked' = [cInvoked EXCEPT ![k] = @ + r.inv]
     /\ cNextOid' = r.oid
     /\ cFetches' = IF r.bg = 1 THEN Append(cFetches, [key |-> k, owner |-> 0, cut |-> FALSE])
                    ELSE cFetches
     /\ cStored' = IF r.ret = "hit" /\ cCfg.sliding /\ pre.live
                   THEN [cStored EXCEPT ![k] = [pre EXCEPT !.at = cNow]]
                   ELSE [cStored EXCEPT ![k] = pre]
     /\ cCalls' = Append(cCalls,
           IF r.ret \in {"hit", "stale", "threw"} THEN Finished
           ELSE [key |-> k, ret |-> r.ret, st |-> "held", item |-> item.oid])
     /\ cLastCall' = [key |-> k, time |-> cNow, ret |-> r.ret, val |-> r.val,
                      inv |-> r.inv, pre |-> pre,
                      preLoading |-> item.present /\ item.loading]
  /\ UNCHANGED <<cCfg, cNow, cacheGroups, cTimers, cLastInsert, cAdmin, cLastAdmin>>

\* The caller subscribes what it was handed: result$ or loading$ is executed;
\* the stale answer is delivered and its tap schedules the refresh.
CacheSubscribe(c) ==
  /\ c \in DOMAIN cCalls
  /\ cCalls[c].st = "held"
  /\ IF cCalls[c].ret = "staleTap"
     THEN /\ cCalls' = [cCalls EXCEPT ![c] = Finished]
          /\ cTimers' = Append(cTimers, [key |-> cCalls[c].key, item |-> cCalls[c].item])
          /\ UNCHANGED cFetches
     ELSE /\ cCalls' = [cCalls EXCEPT ![c].st = "subscribed"]
          /\ cFetches' = Append(cFetches, [key |-> cCalls[c].key, owner |-> c, cut |-> FALSE])
          /\ UNCHANGED cTimers
  /\ UNCHANGED <<cCfg, cNow, memoryCache, lruKeys, cacheGroups, cInvoked, cNextOid,
                 cStored, cLastInsert, cLastCall, cAdmin, cLastAdmin,
                 cStorage>>

\* The oldest setTimeout callback runs: fetchFreshData().subscribe().
CacheTimerFires ==
  /\ cTimers # <<>>
  /\ LET t == Head(cTimers) IN
     /\ memoryCache' = fetchFreshData(memoryCache, t.key, t.item, cNow, cCfg, cNextOid)
     /\ cInvoked' = [cInvoked EXCEPT ![t.key] = @ + 1]
     /\ cFetches' = Append(cFetches, [key |-> t.key, owner |-> 0, cut |-> FALSE])
  /\ cTimers' = Tail(cTimers)
  /\ UNCHANGED <<cCfg, cNow, lruKeys, cacheGroups, cCalls, cNextOid, cStored, cLastInsert, cLastCall, cAdmin, cLastAdmin,
                 cStorage>>

\* A running fetch emits its value and completes: tap stores it, finalize
\* clears loading$, the subscriber (if it is a caller) receives the value.
CacheFetchEmits(f, writeThrows) ==
  /\ f \in DOMAIN cFetches
  /\ writeThrows => cCfg.scope # "memory"
  /\ LET k == cFetches[f].key
         S == setCachedValue([mc |-> memoryCache, lru |-> lruKeys, groups |-> cacheGroups,
                              stored |-> cStored, oid |-> cNextOid],
                             k, cNextOid, cacheGroupOf(k), cNow, cCfg)
     IN
     /\ memoryCache' = finalizeFetch(S.mc, k)
     /\ lruKeys' = S.lru
     /\ cacheGroups' = S.groups
     /\ cStored' = S.stored
     /\ cNextOid' = S.oid
     /\ cLastInsert' = S.insert
     /\ cStorage' = storageSet(cStorage, k, S.mc[k], cCfg, writeThrows)
     /\ cCalls' = IF cFetches[f].owner = 0 THEN cCalls
                  ELSE [cCalls EXCEPT ![cFetches[f].owner] = Finished]
  /\ cFetches' = RemoveAt(cFetches, f)
  /\ UNCHANGED <<cCfg, cNow, cTimers, cInvoked, cLastCall, cAdmin, cLastAdmin>>

\* A running fetch errors: catchError caches the error if cacheErrors accepts
\* it and rethrows; finalize clears loading$.
CacheFetchFails(f, writeThrows) ==
  /\ f \in DOMAIN cFetches
  /\ writeThrows => cCfg.scope # "memory" /\ cCfg.cacheErrors
  /\ LET k == cFetches[f].key
         S0 == [mc |-> memoryCache, lru |-> lruKeys, groups |-> cacheGroups,
                stored |-> cStored, oid |-> cNextOid, insert |-> cLastInsert]
         S == IF cCfg.cacheErrors
              THEN setCachedValue(S0, k, ErrorValue, cacheGroupOf(k), cNow, cCfg)
              ELSE S0
     IN
     /\ memoryCache' = finalizeFetch(S.mc, k)
     /\ lruKeys' = S.lru
     /\ cacheGroups' = S.groups
     /\ cStored' = S.stored
     /\ cNextOid' = S.oid
     /\ cLastInsert' = S.insert
     /\ cStorage' = IF cCfg.cacheErrors
                    THEN storageSet(cStorage, k, S.mc[k], cCfg, writeThrows)
                    ELSE cStorage
     /\ cCalls' = IF cFetches[f].owner = 0 THEN cCalls
                  ELSE [cCalls EXCEPT ![cFetches[f].owner] = Finished]
  /\ cFetches' = RemoveAt(cFetches, f)
  /\ UNCHANGED <<cCfg, cNow, cTimers, cInvoked, cLastCall, cAdmin, cLastAdmin>>

\* A caller abandons its running fetch: finalize clears loading$.
CacheUnsubscribe(c) ==
  /\ c \in DOMAIN cCalls
  /\ cCalls[c].st = "subscribed"
  /\ LET f == CHOOSE j \in DOMAIN cFetches : cFetches[j].owner = c IN
     /\ memoryCache' = finalizeFetch(memoryCache, cFetches[f].key)
     /\ cFetches' = RemoveAt(cFetches, f)
  /\ cCalls' = [cCalls EXCEPT ![c] = Finished]
  /\ UNCHANGED <<cCfg, cNow, lruKeys, cacheGroups, cTimers, cInvoked, cNextOid,
                 cStored, cLastInsert, cLastCall, cAdmin, cLastAdmin,
                 cStorage>>

\* The running fetches after the keys were invalidated: those of the keys are
\* marked as begun before an invalidation of their key.
CutFetches(keys) ==
  [f \in DOMAIN cFetches |->
     IF cFetches[f].key \in keys THEN [cFetches[f] EXCEPT !.cut = TRUE] ELSE cFetches[f]]

\* ObservableCache.invalidate(key) on the store S = [mc, lru, stored].
invalidate(S, key) ==
  [mc |-> [S.mc EXCEPT ![key] = NoEntry],
   lru |-> LruDelete(S.lru, key),
   stored |-> [S.stored EXCEPT ![key] = NotStored]]

\* storage.removeItem(prefix:key) for the keys, when the operation is given
\* the scope of the cache.
storageRemove(storage, keys, cfg) ==
  IF cfg.scope # "memory"
  THEN [k \in DOMAIN storage |-> IF k \in keys THEN NoEntry ELSE storage[k]]
  ELSE storage

\* The keys that hold a stored value, and those stored under group g.
StoredKeys == {k \in AllCacheKeys : cStored[k].live}
StoredUnder(g) == {k \in StoredKeys : memoryCache[k].group = g}

RECURSIVE invalidateAll(_, _)
invalidateAll(S, keys) ==
  IF keys = {} THEN S
  ELSE LET k == CHOOSE x \in keys : TRUE
       IN invalidateAll(invalidate(S, k), keys \ {k})

CacheInvalidate(k) ==
  /\ k \in cCfg.keys
  /\ cAdmin < cCfg.maxAdmin
  /\ memoryCache[k].present
  /\ LET S == invalidate([mc |-> memoryCache, lru |-> lruKeys, stored |-> cStored], k) IN
     /\ memoryCache' = S.mc
     /\ lruKeys' = S.lru
     /\ cStored' = S.stored
  /\ cStorage' = storageRemove(cStorage, {k}, cCfg)
  /\ cLastAdmin' = [op |-> "invalidate", arg |-> k, removed |-> StoredKeys \cap {k},
                    kept |-> StoredKeys \ {k}]
  /\ cFetches' = CutFetches({k})
  /\ UNCHANGED <<cCfg, cNow, cacheGroups, cCalls, cTimers, cInvoked,
                 cNextOid, cLastInsert, cLastCall>>
  /\ cAdmin' = cAdmin + 1

\* ObservableCache.invalidateGroup(group).
CacheInvalidateGroup(g) ==
  /\ cAdmin < cCfg.maxAdmin
  /\ LET S == invalidateAll([mc |-> memoryCache, lru |-> lruKeys, stored |-> cStored],
                            cacheGroups[g]) IN
     /\ memoryCache' = S.mc
     /\ lruKeys' = S.lru
     /\ cStored' = S.stored
  /\ cacheGroups' = [cacheGroups EXCEPT ![g] = {}]
  /\ cStorage' = storageRemove(cStorage, cacheGroups[g], cCfg)
  /\ cLastAdmin' = [op |-> "invalidateGroup", arg |-> g, removed |-> StoredUnder(g),
                    kept |-> StoredKeys \ StoredUnder(g)]
  /\ cFetches' = CutFetches(cacheGroups[g])
  /\ UNCHANGED <<cCfg, cNow, cCalls, cTimers, cInvoked, cNextOid, cLastInsert,
                 cLastCall>>
  /\ cAdmin' = cAdmin + 1

\* ObservableCache.clear().
CacheClear ==
  /\ cAdmin < cCfg.maxAdmin
  /\ CacheSize(memoryCache) > 0
  /\ memoryCache' = [k \in AllCacheKeys |-> NoEntry]
  /\ lruKeys' = <<>>
  /\ cacheGroups' = [g \in Groups |-> {}]
  /\ cStored' = [k \in AllCacheKeys |-> NotStored]
  /\ cStorage' = storageRemove(cStorage, AllCacheKeys, cCfg)
  /\ cLastAdmin' = [op |-> "clear", arg |-> "", removed |-> StoredKeys, kept |-> {}]
  /\ cFetches' = CutFetches(AllCacheKeys)
  /\ UNCHANGED <<cCfg, cNow, cCalls, cTimers, cInvoked, cNextOid, cLastInsert,
                 cLastCall>>
  /\ cAdmin' = cAdmin + 1

\* A millisecond passes.
CacheTick ==
  /\ cNow < cCfg.maxTime
  /\ cNow' = cNow + 1
  /\ UNCHANGED <<cCfg, memoryCache, lruKeys, cacheGroups, cCalls, cFetches, cTimers,
                 cInvoked, cNextOid, cStored, cLastInsert, cLastCall, cAdmin, cLastAdmin,
                 cStorage>>

\* The page is loaded again: the module state is new, calls, fetches and
\* timers of the old page are gone, the storage backend keeps its content.
CacheReload ==
  /\ cCfg.scope # "memory"
  /\ cAdmin < cCfg.maxAdmin
  /\ cAdmin' = cAdmin + 1
  /\ memoryCache' = [k \in AllCacheKeys |-> NoEntry]
  /\ lruKeys' = <<>>
  /\ cacheGroups' = [g \in Groups |-> {}]
  /\ cCalls' = [c \in DOMAIN cCalls |-> Finished]
  /\ cFetches' = <<>>
  /\ cTimers' = <<>>
  /\ cStored' = [k \in AllCacheKeys |-> NotStored]
  /\ cLastAdmin' = [op |-> "reload", arg |-> "", removed |-> {}, kept |-> {}]
  /\ UNCHANGED <<cCfg, cNow, cInvoked, cNextOid, cLastInsert, cLastCall, cStorage>>

CacheNext ==
  \/ \E k \in AllCacheKeys, readThrows \in BOOLEAN, writeThrows \in BOOLEAN :
        CacheCall(k, readThrows, writeThrows)
        /\ UNCHANGED <<shareVars, queueVars, retryVars, pollVars, bulkVars, replayVars, delayVars, memoVars, flagVars, wrapVars>>
  \/ \E c \in DOMAIN cCalls : CacheSubscribe(c) /\ UNCHANGED <<shareVars, queueVars, retryVars, pollVars, bulkVars, replayVars, delayVars, memoVars, flagVars, wrapVars>>
  \/ CacheTimerFires /\ UNCHANGED <<shareVars, queueVars, retryVars, pollVars, bulkVars, replayVars, delayVars, memoVars, flagVars, wrapVars>>
  \/ \E f \in DOMAIN cFetches, writeThrows \in BOOLEAN :
        CacheFetchEmits(f, writeThrows) /\ UNCHANGED <<shareVars, queueVars, retryVars, pollVars, bulkVars, replayVars, delayVars, memoVars, flagVars, wrapVars>>
  \/ \E f \in DOMAIN cFetches, writeThrows \in BOOLEAN :
        CacheFetchFails(f, writeThrows) /\ UNCHANGED <<shareVars, queueVars, retryVars, pollVars, bulkVars, replayVars, delayVars, memoVars, flagVars, wrapVars>>
  \/ \E c \in DOMAIN cCalls : CacheUnsubscribe(c) /\ UNCHANGED <<shareVars, queueVars, retryVars, pollVars, bulkVars, replayVars, delayVars, memoVars, flagVars, wrapVars>>
  \/ \E k \in AllCacheKeys : CacheInvalidate(k) /\ UNCHANGED <<shareVars, queueVars, retryVars, pollVars, bulkVars, replayVars, delayVars, memoVars, flagVars, wrapVars>>
  \/ \E g \in Groups : CacheInvalidateGroup(g) /\ UNCHANGED <<shareVars, queueVars, retryVars, pollVars, bulkVars, replayVars, delayVars, memoVars, flagVars, wrapVars>>
  \/ CacheClear /\ UNCHANGED <<shareVars, queueVars, retryVars, pollVars, bulkVars, replayVars, delayVars, memoVars, flagVars, wrapVars>>
  \/ CacheTick /\ UNCHANGED <<shareVars, queueVars, retryVars, pollVars, bulkVars, replayVars, delayVars, memoVars, flagVars, wrapVars>>

\* The cache of a method whose scope is a storage backend.
CacheStorageNext ==
  \/ CacheNext
  \/ CacheReload /\ UNCHANGED <<shareVars, queueVars, retryVars, pollVars, bulkVars, replayVars, delayVars, memoVars, flagVars, wrapVars>>

\* The last call found a value stored for its key (set by setCachedValue and
\* not evicted, invalidated or cleared since), before / after its ttl elapsed.
CalledBeforeTtl == cLastCall.pre.live /\ cLastCall.time < cLastCall.pre.at + cCfg.ttl
CalledAfterTtl == cLastCall.pre.live /\ cLastCall.time >= cLastCall.pre.at + cCfg.ttl
AnsweredWithStored ==
  /\ cLastCall.ret \in {"hit", "stale", "staleTap"}
  /\ cLastCall.val = cLastCall.pre.val

C7_LruEviction ==
  cLastInsert.happened /\ cLastInsert.full => cLastInsert.evicted = cLastInsert.lru

\* The background refreshes of key k that are being executed.
RefreshesOf(k) == {f \in DOMAIN cFetches : cFetches[f].key = k /\ cFetches[f].owner = 0}

\* C16: with staleWhileRevalidate, a call that finds an expired entry is
\* answered with the stale value at once, and the stale reads of one key share
\* one background refresh: no key has two refreshes being executed.
C16_StaleWhileRevalidate ==
  cCfg.stale =>
    /\ CalledAfterTtl => AnsweredWithStored
    /\ \A k \in AllCacheKeys : Cardinality(RefreshesOf(k)) <= 1

\* The executions of the wrapped operation for key k that are in flight.
PendingOf(k) == {f \in DOMAIN cFetches : cFetches[f].key = k}

\* The store holds a value for k that has not expired.
LiveEntry(k) ==
  memoryCache[k].present /\ cStored[k].live /\ IsValid(memoryCache[k], cNow)

\* C17: every key has at most one pending execution (the Map memoryCache gives
\* it at most one entry), and never a live cached value and a pending
\* execution at the same time.
C17_CachePendingExclusive ==
  \A k \in AllCacheKeys :
    /\ Cardinality(PendingOf(k)) <= 1
    /\ ~(LiveEntry(k) /\ PendingOf(k) # {})

\* C18: with ttl = 0 a stored value never expires: a call that finds a value
\* stored for its key (not invalidated, evicted or cleared since) returns it
\* as a valid hit, without invoking the wrapped operation.
C18_TtlZeroNeverExpires ==
  cCfg.ttl = 0 /\ cLastCall.pre.live =>
    cLastCall.ret = "hit" /\ cLastCall.val = cLastCall.pre.val /\ cLastCall.inv = 0

\* A call for k made now invokes the wrapped operation.
NextCallInvokes(k) == CallOutcome(k, getCachedValue(k, FALSE), FALSE).inv >= 1

\* C19: invalidateGroup(g) leaves every key that was stored under g absent,
\* so that the next call for it invokes the operation again, whatever the ttl
\* of the entry, and leaves the entries stored under other groups as they were.
C19_GroupInvalidation ==
  [][\A g \in Groups :
       CacheInvalidateGroup(g) =>
         /\ \A k \in StoredUnder(g) : ~memoryCache'[k].present /\ NextCallInvokes(k)'
         /\ \A k \in StoredKeys \ StoredUnder(g) :
               memoryCache'[k] = memoryCache[k] /\ cStored'[k] = cStored[k]]_vars

\* C38: a call is answered from the cache only with a value that was stored
\* for its key, and once a fetch for k has failed (cacheErrors unset) or was
\* abandoned, with no value stored for k, a call for k invokes the operation.
C38_NoPlaceholderServed ==
  /\ [](cLastCall.ret \in {"hit", "stale", "staleTap"} =>
          cLastCall.pre.live /\ cLastCall.val = cLastCall.pre.val)
  /\ [][\A k \in AllCacheKeys :
          /\ \/ \E f \in DOMAIN cFetches : cFetches[f].key = k /\ ~cCfg.cacheErrors
                                             /\ CacheFetchFails(f, FALSE)
             \/ \E c \in DOMAIN cCalls : cCalls[c].key = k /\ CacheUnsubscribe(c)
          /\ ~cStored'[k].live
          /\ PendingOf(k)' = {}
          => NextCallInvokes(k)']_vars

\* C39: with maxCacheSize configured the memory store never holds more than
\* maxCacheSize entries, and a fetch that stores its value for a key that is
\* already in the store removes no other key.
C39_CacheSizeBound ==
  /\ [](cCfg.maxCacheSize # 0 => CacheSize(memoryCache) <= cCfg.maxCacheSize)
  /\ [][\A f \in DOMAIN cFetches :
          CacheFetchEmits(f, FALSE) /\ memoryCache[cFetches[f].key].present =>
            \A k \in AllCacheKeys \ {cFetches[f].key} :
               memoryCache[k].present => memoryCache'[k].present]_vars

\* A call for k made now is answered from the cache.
AnsweredFromCache(k) ==
  CallOutcome(k, getCachedValue(k, FALSE), FALSE).ret \in {"hit", "stale", "staleTap"}

\* C40: the value of a fetch that was in flight when its key was invalidated
\* (invalidate, invalidateGroup or clear) is not stored when the fetch emits,
\* so a call made then is not answered from the cache, and no fetch begun
\* after the invalidation runs beside that fetch.
C40_InvalidationWins ==
  /\ [][\A f \in DOMAIN cFetches, k \in AllCacheKeys :
          CacheFetchEmits(f, FALSE) /\ cFetches[f].cut /\ cFetches[f].key = k =>
            ~cStored'[k].live /\ ~AnsweredFromCache(k)']_vars
  /\ [](\A f, g \in DOMAIN cFetches :
          cFetches[f].key = cFetches[g].key /\ cFetches[f].cut => cFetches[g].cut)

\* C20: a storage backend that throws when read or written never fails the
\* caller: no call of the decorated method ends by throwing, every call
\* returns a cached value or an execution of the operation.
C20_StorageFailuresSwallowed ==
  /\ cLastCall.ret # "threw"
  /\ cLastCall.key # "" =>
       cLastCall.ret \in {"hit", "stale", "staleTap", "join", "fresh"}

(***************************************************************************)
(*                           PollingObservable                             *)
(* timer(0, interval) | takeUntil(stop$) | takeWhile | switchMap | tap |   *)
(* catchError | finalize.  RxJS 7: takeUntil ignores a notifier that only  *)
(* completes; switchMap unsubscribes the running inner observable when the *)
(* source emits again and completes when source and inner have completed;  *)
(* catchError replaces the failed stream by the observable it returns.     *)
(***************************************************************************)
MaxAttempts == 2
MaxDuration == 3
Interval == 2
MaxPollTime == 5
\* Values of the polled operation; stopPredicate accepts "done". "null" is
\* the null the decorator emits itself.
PollValues == {"pending", "done"}

PollConfigs ==
  [interval : {Interval}, maxAttempts : {0, MaxAttempts}, maxDuration : {0, MaxDuration},
   predicate : BOOLEAN, continueOnError : BOOLEAN]

NoPollConfig ==
  [interval |-> 0, maxAttempts |-> 0, maxDuration |-> 0, predicate |-> FALSE,
   continueOnError |-> FALSE]

\* stopPredicate && value && stopPredicate(value)
stopPredicate(v) == pCfg.predicate /\ v # "null" /\ v = "done"

\* The timer(maxDuration) is due.
DurationDue == pDuration = "armed" /\ pNow >= startTime + pCfg.maxDuration

\* timer(0, interval) of the subscription is due.
TickDue == pPc = "running" /\ ~pOuterDone /\ pNow >= pNextTick

\* stop$.next(); stop$.complete() as finalize and the stop paths do it: the
\* Subject stops and takeUntil(stop$) unsubscribes the timer(maxDuration).
StopFired == "stopped"
DurationAfterStop == IF pDuration = "armed" THEN "cancelled" ELSE pDuration

\* descriptor.value: the closure state is created and the duration timer is
\* started; the polling Observable is returned unsubscribed.
PollCall ==
  /\ pPc = "idle"
  /\ pPc' = "called"
  /\ startTime' = pNow
  /\ attemptCount' = 0
  /\ lastValue' = "null"
  /\ stopSubject' = "open"
  /\ pDuration' = IF pCfg.maxDuration # 0 THEN "armed" ELSE "none"
  /\ UNCHANGED <<pCfg, pNow, pNextTick, pOuterDone, pInner, pInvoked, pDropped,
                 pCompleteLog, pAttemptLog, pDelivered, pOutcome, pPredTrue, pEndCause>>

\* The caller subscribes the returned Observable: timer(0, interval) starts.
PollSubscribe ==
  /\ pPc = "called"
  /\ pPc' = "running"
  /\ pNextTick' = pNow
  /\ UNCHANGED <<pCfg, pNow, startTime, attemptCount, lastValue, stopSubject, pDuration,
                 pOuterDone, pInner, pInvoked, pDropped, pCompleteLog, pAttemptLog,
                 pDelivered, pOutcome, pPredTrue, pEndCause>>

\* timer(maxDuration) fires: stop$.next(), stop$.complete(), onComplete.
\* takeUntil of a running subscription completes the timer stream; the
\* polling stream completes at once unless an attempt is still subscribed.
PollDurationFires ==
  /\ DurationDue
  /\ pDuration' = "fired"
  /\ stopSubject' = StopFired
  /\ pCompleteLog' = Append(pCompleteLog, "max_duration")
  /\ IF pPc = "running" /\ ~pOuterDone
     THEN /\ pOuterDone' = TRUE
          /\ pEndCause' = "max_duration"
          /\ IF pInner = "running"
             THEN UNCHANGED <<pPc, pOutcome>>
             ELSE pPc' = "ended" /\ pOutcome' = "complete"
     ELSE UNCHANGED <<pOuterDone, pEndCause, pPc, pOutcome>>
  /\ UNCHANGED <<pCfg, pNow, startTime, pNextTick, attemptCount, lastValue, pInner,
                 pInvoked, pDropped, pAttemptLog, pDelivered, pPredTrue>>

\* timer(0, interval) emits and takeWhile finds maxAttempts reached.
PollMaxAttempts ==
  /\ TickDue /\ ~DurationDue
  /\ pCfg.maxAttempts # 0 /\ attemptCount >= pCfg.maxAttempts
  /\ pCompleteLog' = Append(pCompleteLog, "max_attempts")
  /\ pOuterDone' = TRUE
  /\ pEndCause' = "max_attempts"
  /\ IF pInner = "running"
     THEN UNCHANGED <<pPc, pOutcome, stopSubject, pDuration>>
     ELSE /\ pPc' = "ended"
          /\ pOutcome' = "complete"
          /\ stopSubject' = StopFired
          /\ pDuration' = DurationAfterStop
  /\ UNCHANGED <<pCfg, pNow, startTime, pNextTick, attemptCount, lastValue, pInner,
                 pInvoked, pDropped, pAttemptLog, pDelivered, pPredTrue>>

\* timer(0, interval) emits and switchMap starts an attempt: the attempt
\* still subscribed is unsubscribed, originalMethod is invoked and returns an
\* Observable or Promise that settles later.
PollAttemptStarts ==
  /\ TickDue /\ ~DurationDue
  /\ ~(pCfg.maxAttempts # 0 /\ attemptCount >= pCfg.maxAttempts)
  /\ attemptCount' = attemptCount + 1
  /\ pInvoked' = pInvoked + 1
  /\ pNextTick' = pNow + pCfg.interval
  /\ pDropped' = IF pInner = "running" THEN pDropped + 1 ELSE pDropped
  /\ pInner' = "running"
  /\ UNCHANGED <<pCfg, pNow, pPc, startTime, lastValue, stopSubject, pDuration, pOuterDone,
                 pCompleteLog, pAttemptLog, pDelivered, pOutcome, pPredTrue, pEndCause>>

\* timer(0, interval) emits and originalMethod throws synchronously: the
\* catch of switchMap answers of(null) or throwError(error).
PollAttemptThrows ==
  /\ TickDue /\ ~DurationDue
  /\ ~(pCfg.maxAttempts # 0 /\ attemptCount >= pCfg.maxAttempts)
  /\ attemptCount' = attemptCount + 1
  /\ pInvoked' = pInvoked + 1
  /\ pNextTick' = pNow + pCfg.interval
  /\ pDropped' = IF pInner = "running" THEN pDropped + 1 ELSE pDropped
  /\ pInner' = "none"
  /\ IF pCfg.continueOnError
     THEN /\ lastValue' = "null"
          /\ pAttemptLog' = Append(pAttemptLog, <<attemptCount + 1, "null">>)
          /\ pDelivered' = Append(pDelivered, "null")
          /\ UNCHANGED <<pPc, stopSubject, pDuration, pCompleteLog, pOutcome, pEndCause>>
     ELSE /\ pCompleteLog' = Append(pCompleteLog, "error")
          /\ pPc' = "ended"
          /\ pOutcome' = "error"
          /\ pEndCause' = "error"
          /\ stopSubject' = StopFired
          /\ pDuration' = DurationAfterStop
          /\ UNCHANGED <<lastValue, pAttemptLog, pDelivered>>
  /\ UNCHANGED <<pCfg, pNow, startTime, pOuterDone, pPredTrue>>

\* The running attempt emits v and completes: tap.next records it, calls
\* onAttempt and, if stopPredicate accepts v, onComplete and stop$.next().
PollAttemptEmits(v) ==
  /\ pPc = "running" /\ pInner = "running"
  /\ pInner' = "none"
  /\ lastValue' = v
  /\ pAttemptLog' = Append(pAttemptLog, <<attemptCount, v>>)
  /\ pDelivered' = Append(pDelivered, v)
  /\ pPredTrue' = (pPredTrue \/ stopPredicate(v))
  /\ pCompleteLog' = IF stopPredicate(v) THEN Append(pCompleteLog, "predicate")
                     ELSE pCompleteLog
  /\ LET stops == stopPredicate(v) /\ stopSubject = "open" /\ ~pOuterDone
         ends  == stops \/ pOuterDone
     IN /\ stopSubject' = IF stopPredicate(v) \/ ends THEN StopFired ELSE stopSubject
        /\ pDuration' = IF stopPredicate(v) \/ ends THEN DurationAfterStop ELSE pDuration
        /\ pOuterDone' = (pOuterDone \/ stops)
        /\ pEndCause' = IF stops THEN "predicate" ELSE pEndCause
        /\ pPc' = IF ends THEN "ended" ELSE pPc
        /\ pOutcome' = IF ends THEN "complete" ELSE pOutcome
  /\ UNCHANGED <<pCfg, pNow, startTime, pNextTick, attemptCount, pInvoked, pDropped>>

\* The running attempt errors: tap.error calls onComplete(lastValue, 'error');
\* catchError replaces the stream by of(null) or rethrows; finalize runs.
PollAttemptFails ==
  /\ pPc = "running" /\ pInner = "running"
  /\ pInner' = "none"
  /\ pCompleteLog' = Append(pCompleteLog, "error")
  /\ pDelivered' = IF pCfg.continueOnError THEN Append(pDelivered, "null") ELSE pDelivered
  /\ pOutcome' = IF pCfg.continueOnError THEN "complete" ELSE "error"
  /\ pPc' = "ended"
  /\ pEndCause' = IF pOuterDone THEN pEndCause ELSE "error"
  /\ pOuterDone' = TRUE
  /\ stopSubject' = StopFired
  /\ pDuration' = DurationAfterStop
  /\ UNCHANGED <<pCfg, pNow, startTime, pNextTick, attemptCount, lastValue, pInvoked,
                 pDropped, pAttemptLog, pPredTrue>>

\* The caller unsubscribes: the timer and the running attempt are
\* unsubscribed and finalize runs.
PollUnsubscribe ==
  /\ pPc = "running"
  /\ pPc' = "cancelled"
  /\ pInner' = IF pInner = "running" THEN "aborted" ELSE pInner
  /\ pEndCause' = IF pOuterDone THEN pEndCause ELSE "cancelled"
  /\ pOuterDone' = TRUE
  /\ stopSubject' = StopFired
  /\ pDuration' = DurationAfterStop
  /\ UNCHANGED <<pCfg, pNow, startTime, pNextTick, attemptCount, lastValue, pInvoked,
                 pDropped, pCompleteLog, pAttemptLog, pDelivered, pOutcome, pPredTrue>>

\* A millisecond passes; timers that are due fire first.
PollTick ==
  /\ pNow < MaxPollTime
  /\ ~DurationDue /\ ~TickDue
  /\ pNow' = pNow + 1
  /\ UNCHANGED <<pCfg, pPc, startTime, pNextTick, attemptCount, lastValue, stopSubject,
                 pDuration, pOuterDone, pInner, pInvoked, pDropped, pCompleteLog,
                 pAttemptLog, pDelivered, pOutcome, pPredTrue, pEndCause>>

PollNext ==
  \/ PollCall /\ UNCHANGED <<shareVars, queueVars, retryVars, cacheVars, bulkVars, replayVars, delayVars, memoVars, flagVars, wrapVars>>
  \/ PollSubscribe /\ UNCHANGED <<shareVars, queueVars, retryVars, cacheVars, bulkVars, replayVars, delayVars, memoVars, flagVars, wrapVars>>
  \/ PollDurationFires /\ UNCHANGED <<shareVars, queueVars, retryVars, cacheVars, bulkVars, replayVars, delayVars, memoVars, flagVars, wrapVars>>
  \/ PollMaxAttempts /\ UNCHANGED <<shareVars, queueVars, retryVars, cacheVars, bulkVars, replayVars, delayVars, memoVars, flagVars, wrapVars>>
  \/ PollAttemptStarts /\ UNCHANGED <<shareVars, queueVars, retryVars, cacheVars, bulkVars, replayVars, delayVars, memoVars, flagVars, wrapVars>>
  \/ PollAttemptThrows /\ UNCHANGED <<shareVars, queueVars, retryVars, cacheVars, bulkVars, replayVars, delayVars, memoVars, flagVars, wrapVars>>
  \/ \E v \in PollValues :
        PollAttemptEmits(v) /\ UNCHANGED <<shareVars, queueVars, retryVars, cacheVars, bulkVars, replayVars, delayVars, memoVars, flagVars, wrapVars>>
  \/ PollAttemptFails /\ UNCHANGED <<shareVars, queueVars, retryVars, cacheVars, bulkVars, replayVars, delayVars, memoVars, flagVars, wrapVars>>
  \/ PollUnsubscribe /\ UNCHANGED <<shareVars, queueVars, retryVars, cacheVars, bulkVars, replayVars, delayVars, memoVars, flagVars, wrapVars>>
  \/ PollTick /\ UNCHANGED <<shareVars, queueVars, retryVars, cacheVars, bulkVars, replayVars, delayVars, memoVars, flagVars, wrapVars>>

(***************************************************************************)
(*                              BulkOperator                               *)
(* Items are identified by their position in the input; the result of the  *)
(* operation of item i is i, and 0 stands for the null that replaces a     *)
(* synchronous throw.  mergeMap(project, n) subscribes the inner           *)
(* observables in source order, at most n at a time, and emits their       *)
(* values as they arrive; toArray emits the collected values on complete.  *)
(***************************************************************************)
NItems == 3
BatchSize == 2
MaxConcurrent == 2
\* What originalMethod does for an item: returns an Observable that settles
\* later, a Promise, an Observable that emits when subscribed, or throws.
BulkKinds == {"observable", "promise", "sync", "throws"}

BulkConfigs ==
  [batchSize : {BatchSize}, maxConcurrent : 1..MaxConcurrent, parallel : BOOLEAN,
   kinds : [1..NItems -> BulkKinds]]

NoBulkConfig ==
  [batchSize |-> 1, maxConcurrent |-> 1, parallel |-> FALSE,
   kinds |-> [i \in 1..NItems |-> "sync"]]

BulkItems == [i \in 1..NItems |-> i]

\* items.slice(from, to)
Slice(items, from, to) == SubSeq(items, from + 1, Min(to, Len(items)))

\* for (let i = 0; i < items.length; i += batchSize) batches.push(items.slice(i, i + batchSize))
RECURSIVE BatchLoop(_, _, _, _)
BatchLoop(items, i, size, batches) ==
  IF i >= Len(items) THEN batches
  ELSE BatchLoop(items, i + size, size, Append(batches, Slice(items, i, i + size)))

Batches == BatchLoop(BulkItems, 0, bCfg.batchSize, <<>>)

BatchItemsOf(b) == {Batches[b][j] : j \in 1..Len(Batches[b])}

\* The concurrency handed to mergeMap.
Concurrency == IF bCfg.parallel THEN bCfg.maxConcurrent ELSE 1

\* processBatch up to the subscription of execution$: originalMethod is
\* called for every item of the batch.
StartBatch(B, b) ==
  [B EXCEPT !.batch = b,
            !.ops = [i \in 1..NItems |-> IF i \in BatchItemsOf(b) THEN "created" ELSE B.ops[i]]]

\* What the driver does without waiting: mergeMap subscribes the next
\* operations while it has room (an operation that emits on subscription
\* completes at once); when all operations of the batch have completed,
\* toArray emits, tap appends to allResults and calls results$.next, and the
\* next batch is processed; after the last batch results$ completes.
RECURSIVE Pump(_)
Pump(B) ==
  IF B.pc # "running" THEN B
  ELSE
    LET pending == {i \in BatchItemsOf(B.batch) : B.ops[i] = "created"}
        active  == {i \in BatchItemsOf(B.batch) : B.ops[i] = "running"}
    IN
    IF pending # {} /\ Cardinality(active) < Concurrency
    THEN LET i == CHOOSE x \in pending : \A y \in pending : x <= y IN
         IF bCfg.kinds[i] \in {"sync", "throws"}
         THEN Pump([B EXCEPT !.ops[i] = "done",
                             !.results = Append(@, IF bCfg.kinds[i] = "throws" THEN 0 ELSE i)])
         ELSE Pump([B EXCEPT !.ops[i] = "running"])
    ELSE IF pending = {} /\ active = {}
    THEN LET all1 == B.all \o B.results
             B1 == [B EXCEPT !.all = all1, !.out = Append(@, all1), !.results = <<>>]
         IN IF B.batch < Len(Batches)
            THEN Pump(StartBatch(B1, B.batch + 1))
            ELSE [B1 EXCEPT !.pc = "done"]
    ELSE B

DriverState ==
  [pc |-> bPc, batch |-> bBatch, ops |-> bOps, results |-> bBatchResults,
   all |-> allResults, out |-> <<>>]

\* The driver state B becomes the state; the caller, if subscribed, receives
\* the lists passed to results$.next and completes with results$.
BulkApply(B) ==
  /\ bPc' = B.pc
  /\ bBatch' = B.batch
  /\ bOps' = B.ops
  /\ bBatchResults' = B.results
  /\ allResults' = B.all
  /\ bEmitted' = bEmitted + Len(B.out)
  /\ bReceived' = IF bSub = "yes" THEN bReceived \o B.out ELSE bReceived
  /\ bSub' = IF bSub = "yes" /\ B.pc # "running" THEN "done" ELSE bSub

\* descriptor.value: the batches are built and the driver is subscribed
\* before the result Observable is returned.
BulkCall ==
  /\ bPc = "idle"
  /\ BulkApply(Pump(StartBatch([DriverState EXCEPT !.pc = "running"], 1)))
  /\ UNCHANGED <<bCfg, bSettled>>

\* The caller subscribes results$.pipe(take, switchMap).
BulkSubscribe ==
  /\ bPc # "idle"
  /\ bSub = "no"
  /\ bSub' = IF bPc = "running" THEN "yes" ELSE "done"
  /\ UNCHANGED <<bCfg, bPc, bBatch, bOps, bSettled, bBatchResults, allResults, bEmitted,
                 bReceived>>

\* The Promise returned for item i settles.
BulkPromiseSettles(i, how) ==
  /\ bCfg.kinds[i] = "promise"
  /\ bOps[i] \in {"created", "running", "aborted"}
  /\ bSettled[i] = "none"
  /\ bSettled' = [bSettled EXCEPT ![i] = how]
  /\ UNCHANGED <<bCfg, bPc, bBatch, bOps, bBatchResults, allResults, bEmitted, bSub,
                 bReceived>>

\* The subscribed operation of item i emits its result and completes.
BulkOpEmits(i) ==
  /\ bPc = "running"
  /\ bOps[i] = "running"
  /\ bCfg.kinds[i] = "promise" => bSettled[i] = "resolved"
  /\ BulkApply(Pump([DriverState EXCEPT !.ops[i] = "done", !.results = Append(@, i)]))
  /\ UNCHANGED <<bCfg, bSettled>>

\* The subscribed operation of item i errors: mergeMap errors, the other
\* running operations are unsubscribed, the driver's subscription ends and
\* its finalize completes results$.
BulkOpFails(i) ==
  /\ bPc = "running"
  /\ bOps[i] = "running"
  /\ bCfg.kinds[i] = "promise" => bSettled[i] = "rejected"
  /\ BulkApply([DriverState EXCEPT
                  !.pc = "failed",
                  !.ops = [j \in 1..NItems |->
                             IF j = i THEN "failed"
                             ELSE IF bOps[j] = "running" THEN "aborted" ELSE bOps[j]]])
  /\ UNCHANGED <<bCfg, bSettled>>

BulkNext ==
  \/ BulkCall /\ UNCHANGED <<shareVars, queueVars, retryVars, cacheVars, pollVars, replayVars, delayVars, memoVars, flagVars, wrapVars>>
  \/ BulkSubscribe /\ UNCHANGED <<shareVars, queueVars, retryVars, cacheVars, pollVars, replayVars, delayVars, memoVars, flagVars, wrapVars>>
  \/ \E i \in 1..NItems, how \in {"resolved", "rejected"} :
        BulkPromiseSettles(i, how)
        /\ UNCHANGED <<shareVars, queueVars, retryVars, cacheVars, pollVars, replayVars, delayVars, memoVars, flagVars, wrapVars>>
  \/ \E i \in 1..NItems :
        BulkOpEmits(i) /\ UNCHANGED <<shareVars, queueVars, retryVars, cacheVars, pollVars, replayVars, delayVars, memoVars, flagVars, wrapVars>>
  \/ \E i \in 1..NItems :
        BulkOpFails(i) /\ UNCHANGED <<shareVars, queueVars, retryVars, cacheVars, pollVars, replayVars, delayVars, memoVars, flagVars, wrapVars>>

\* The operations in flight: an Observable while it is subscribed, a Promise
\* from the call of originalMethod until it settles.
BulkInFlight ==
  {i \in 1..NItems :
     IF bCfg.kinds[i] = "promise"
     THEN bOps[i] \in {"created", "running", "aborted"} /\ bSettled[i] = "none"
     ELSE bOps[i] = "running"}

\* The result that belongs to item i: its operation's value, or the null
\* that stands for an operation that threw.
ResultOf(i) == IF bCfg.kinds[i] = "throws" THEN 0 ELSE i

\* C13: the result list has one result per input item, in input order.
C13_InputOrder ==
  bPc = "done" =>
    /\ Len(allResults) = NItems
    /\ \A i \in 1..NItems : allResults[i] = ResultOf(i)

\* C14: the failure of one item's operation is that item's result only: the
\* other operations are not abandoned, and when the driver has stopped there
\* is a result for every item.
C14_FailureIsolated ==
  /\ \A i \in 1..NItems : bOps[i] # "aborted"
  /\ bPc \in {"done", "failed"} =>
       /\ Len(allResults) = NItems
       /\ \A i \in 1..NItems : bOps[i] \in {"done", "failed"}

\* C37: when all batches have finished and the caller's stream has completed,
\* the caller has received exactly one list, the complete result list, whenever
\* it subscribed.
C37_ResultsDeliveredOnce ==
  bPc = "done" /\ bSub = "done" => bReceived = <<allResults>>

RECURSIVE Concat(_)
Concat(seqs) == IF seqs = <<>> THEN <<>> ELSE Head(seqs) \o Concat(Tail(seqs))

\* C15: the batches are consecutive chunks of batchSize (the last possibly
\* shorter) whose concatenation is the input; a batch is not started before
\* the batches before it have finished; at most maxConcurrent operations are
\* in flight.
C15_ChunksAndConcurrency ==
  /\ Concat(Batches) = BulkItems
  /\ \A b \in 1..Len(Batches) :
       /\ Len(Batches[b]) <= bCfg.batchSize
       /\ b < Len(Batches) => Len(Batches[b]) = bCfg.batchSize
  /\ \A b \in 1..Len(Batches) : \A i \in BatchItemsOf(b) :
       bOps[i] # "waiting" =>
         \A c \in 1..(b - 1) : \A j \in BatchItemsOf(c) : bOps[j] = "done"
  /\ Cardinality(BulkInFlight) <= bCfg.maxConcurrent

\* A stop condition of the polling run has been reached: stopPredicate
\* returned true, maxAttempts attempts were made, maxDuration has elapsed
\* since the call, or the caller cancelled.
StopReached ==
  \/ pPredTrue
  \/ pCfg.maxAttempts # 0 /\ pInvoked >= pCfg.maxAttempts
  \/ pCfg.maxDuration # 0 /\ pPc # "idle" /\ pNow >= startTime + pCfg.maxDuration
  \/ pPc = "cancelled"

\* C11: with continueOnError a failed attempt does not terminate the polling:
\* a run that has terminated was stopped by stopPredicate, maxAttempts,
\* maxDuration or the caller, never by the failure of an attempt.
C11_ContinueOnError ==
  pCfg.continueOnError /\ pPc \in {"ended", "cancelled"} =>
    pEndCause \in {"predicate", "max_attempts", "max_duration", "cancelled"}

\* C12: once a stop condition has been reached no further attempt is started
\* (so the operation is invoked at most maxAttempts times).
C12_NoAttemptAfterStop == [][pInvoked' > pInvoked => ~StopReached]_vars

\* C28: when a polling run has terminated, onComplete has been called exactly
\* once, with the reason that matches the cause of the termination:
\* predicate, max_attempts, max_duration, error, or cancelled.
C28_OnCompleteOnce ==
  pPc \in {"ended", "cancelled"} => pCompleteLog = <<pEndCause>>

\* C29: every attempt that was started is reported through onAttempt: while
\* the run is subscribed or has ended by itself and no attempt is in flight,
\* onAttempt has been called once for each of the attempts 1..n made so far,
\* in their order.
C29_EveryAttemptReported ==
  pPc \in {"running", "ended"} /\ pInner # "running" =>
    /\ Len(pAttemptLog) = pInvoked
    /\ \A j \in 1..Len(pAttemptLog) : pAttemptLog[j][1] = j

\* C30: when the caller unsubscribes, no further attempt is started, and the
\* attempt that is in flight at that moment is left running: the
\* unsubscription does not abort it.
C30_CancelKeepsCurrentAttempt ==
  /\ [][pPc = "cancelled" => pInvoked' = pInvoked]_vars
  /\ [][PollUnsubscribe => pInner' = pInner]_vars

\* C27: the attempts of one call never overlap: a polling attempt is started,
\* and the operation of a SmartRetry call is executed again, only when no
\* earlier attempt of the call is still in flight.
C27_AttemptsSequential ==
  /\ [][pInvoked' > pInvoked => pInner # "running"]_vars
  /\ [][rOpRuns' > rOpRuns => rPc # "attempting"]_vars

(***************************************************************************)
(*                            ObservableMemoize                            *)
(***************************************************************************)
MemoKeys == {"a", "b", "c"}
MemoKinds == {"observable", "promise"}
MaxMemoCalls == 3
MaxMemoTime == 1
MemoMaxSize == 1
MemoExpiration == 1
MaxMemoClears == 1

\* maxSize 0 and expirationTime 0 stand for the options left undefined. Two keys,
\* calls that overlap freely, with and without a bound of one entry.
MemoConfigs ==
  [kind : MemoKinds, maxSize : {0, MemoMaxSize}, expirationTime : {0},
   keys : {{"a", "b"}}, maxCalls : {MaxMemoCalls}, maxOpen : {MaxMemoCalls},
   maxTime : {MaxMemoTime}]

\* Three keys and a bound of two entries, one more call and one more tick, with
\* and without expiration; a call is made when the earlier ones are finished.
MemoLruConfigs ==
  [kind : {"observable"}, maxSize : {MemoMaxSize + 1},
   expirationTime : {0, MemoExpiration}, keys : {MemoKeys},
   maxCalls : {MaxMemoCalls + 1}, maxOpen : {1}, maxTime : {MaxMemoTime + 1}]

NoMemoConfig ==
  [kind |-> "none", maxSize |-> 0, expirationTime |-> 0, keys |-> {}, maxCalls |-> 0,
   maxOpen |-> 0, maxTime |-> 0]
NoMemoEntry == [key |-> "none", loading |-> FALSE, timestamp |-> 0, src |-> 0, val |-> 0]
NoEvict == [made |-> FALSE, key |-> "none", lru |-> "none"]

\* The Map of one method, as the sequence of its entries in insertion order.
MemoKeysOf(cache) == {cache[j].key : j \in 1..Len(cache)}

MemoHas(cache, k) == k \in MemoKeysOf(cache)

MemoGet(cache, k) ==
  IF MemoHas(cache, k)
  THEN cache[CHOOSE j \in 1..Len(cache) : cache[j].key = k]
  ELSE NoMemoEntry

\* Map.set: an existing key keeps its place, a new key goes to the end.
MemoSet(cache, e) ==
  IF MemoHas(cache, e.key)
  THEN [j \in 1..Len(cache) |-> IF cache[j].key = e.key THEN e ELSE cache[j]]
  ELSE Append(cache, e)

MemoDelete(cache, k) == SelectSeq(cache, LAMBDA e : e.key # k)

\* Array.from(cache.entries()).sort((a, b) => a[1].timestamp - b[1].timestamp)[0][0]:
\* the sort is stable, so among equal timestamps the first inserted comes first.
oldestKey(cache) ==
  cache[CHOOSE j \in 1..Len(cache) :
          /\ \A i \in 1..Len(cache) : cache[j].timestamp <= cache[i].timestamp
          /\ \A i \in 1..(j - 1) : cache[i].timestamp > cache[j].timestamp].key

\* The order of last use of the keys, least recent first.
Touch(recent, k) == Append(SelectSeq(recent, LAMBDA x : x # k), k)

LeastRecent(recent, cache) ==
  recent[CHOOSE j \in 1..Len(recent) :
           /\ MemoHas(cache, recent[j])
           /\ \A i \in 1..(j - 1) : ~MemoHas(cache, recent[i])]

\* finalize of the pipeline returned to the call that invoked the method.
memoFinalize(cache, k) ==
  IF MemoHas(cache, k) /\ MemoGet(cache, k).loading THEN MemoDelete(cache, k) ELSE cache

\* The calls that have not finished yet.
MemoOpen == {c \in DOMAIN mCallers : mCallers[c].st \in {"created", "subscribed"}}

\* The calls whose invocation of the method is being loaded for key k.
MemoLoading(k) ==
  {c \in DOMAIN mCallers :
     mCallers[c].key = k /\ mCallers[c].piped /\ mCallers[c].st = "subscribed"}

\* descriptor.value(...args) with cacheKey k.
MemoCall(k) ==
  /\ Len(mCallers) < mCfg.maxCalls
  /\ Cardinality(MemoOpen) < mCfg.maxOpen
  /\ LET c == Len(mCallers) + 1
         e == MemoGet(memoizationCache, k)
         has == MemoHas(memoizationCache, k)
         isExpired == mCfg.expirationTime # 0 /\ mNow - e.timestamp > mCfg.expirationTime
         joined == IF MemoLoading(k) = {} THEN 0
                   ELSE CHOOSE j \in MemoLoading(k) : \A i \in MemoLoading(k) : j <= i
         base == [key |-> k, src |-> 0, piped |-> FALSE, hit |-> 0, st |-> "created",
                  prom |-> "none", exec |-> 0, got |-> NoOutcome, joined |-> joined]
     IN
       /\ mRecent' = Touch(mRecent, k)
       /\ IF has /\ e.loading
          THEN /\ mCallers' = Append(mCallers, [base EXCEPT !.src = e.src])
               /\ UNCHANGED <<memoizationCache, mInvoked, mExecCount, mLastEvict>>
          ELSE IF has /\ ~isExpired
          THEN /\ mCallers' = Append(mCallers, [base EXCEPT !.hit = e.val])
               /\ UNCHANGED <<memoizationCache, mInvoked, mExecCount, mLastEvict>>
          ELSE LET c1 == MemoDelete(memoizationCache, k)
                   evict == mCfg.maxSize # 0 /\ Len(c1) >= mCfg.maxSize
                   c2 == IF evict THEN MemoDelete(c1, oldestKey(c1)) ELSE c1
                   isPromise == mCfg.kind = "promise"
               IN
                 /\ mLastEvict' = IF evict
                                  THEN [made |-> TRUE, key |-> oldestKey(c1),
                                        lru |-> LeastRecent(mRecent, c1)]
                                  ELSE mLastEvict
                 /\ mInvoked' = [mInvoked EXCEPT ![k] = @ + 1]
                 /\ mExecCount' = IF isPromise THEN mExecCount + 1 ELSE mExecCount
                 /\ memoizationCache' =
                      MemoSet(c2, [key |-> k, loading |-> TRUE, timestamp |-> mNow,
                                   src |-> c, val |-> 0])
                 /\ mCallers' =
                      Append(mCallers,
                             [base EXCEPT !.src = c, !.piped = TRUE,
                                          !.prom = IF isPromise THEN "pending" ELSE "none",
                                          !.exec = IF isPromise THEN mExecCount + 1 ELSE 0])
  /\ UNCHANGED <<mCfg, mNow, mCleared>>

\* The caller subscribes to what the call returned: of(value) of a stored entry
\* answers at once, the method's Observable is executed for this subscriber, the
\* method's Promise is awaited.
MemoSubscribe(c) ==
  /\ mCallers[c].st = "created"
  /\ IF mCallers[c].src = 0
     THEN /\ mCallers' = [mCallers EXCEPT ![c].st = "done",
                            ![c].got = [kind |-> "value", exec |-> mCallers[c].hit]]
          /\ UNCHANGED mExecCount
     ELSE IF mCfg.kind = "observable"
     THEN /\ mCallers' = [mCallers EXCEPT ![c].st = "subscribed", ![c].exec = mExecCount + 1]
          /\ mExecCount' = mExecCount + 1
     ELSE /\ mCallers' = [mCallers EXCEPT ![c].st = "subscribed",
                            ![c].exec = mCallers[mCallers[c].src].exec]
          /\ UNCHANGED mExecCount
  /\ UNCHANGED <<mCfg, mNow, memoizationCache, mInvoked, mRecent, mLastEvict, mCleared>>

\* The execution a subscriber waits for emits its value and completes, or fails
\* (a Promise settles once: its first delivery fixes what the later ones are);
\* tap and finalize run for the pipeline of the call that invoked the method.
MemoSettle(c, res) ==
  /\ mCallers[c].st = "subscribed"
  /\ mCfg.kind = "promise" => mCallers[mCallers[c].src].prom \in {"pending", res}
  /\ mCallers' = [mCallers EXCEPT ![c].st = IF res = "value" THEN "done" ELSE "errored",
                                  ![c].got = [kind |-> res, exec |-> mCallers[c].exec],
                                  ![mCallers[c].src].prom =
                                      IF mCfg.kind = "promise" THEN res ELSE @]
  /\ IF mCallers[c].piped
     THEN IF res = "value"
          THEN /\ memoizationCache' =
                    MemoSet(memoizationCache,
                            [key |-> mCallers[c].key, loading |-> FALSE,
                             timestamp |-> mNow, src |-> 0, val |-> mCallers[c].exec])
               /\ mRecent' = Touch(mRecent, mCallers[c].key)
          ELSE /\ memoizationCache' = memoFinalize(memoizationCache, mCallers[c].key)
               /\ UNCHANGED mRecent
     ELSE UNCHANGED <<memoizationCache, mRecent>>
  /\ UNCHANGED <<mCfg, mNow, mInvoked, mExecCount, mLastEvict, mCleared>>

\* The caller unsubscribes before the settlement.
MemoUnsubscribe(c) ==
  /\ mCallers[c].st = "subscribed"
  /\ mCallers' = [mCallers EXCEPT ![c].st = "unsubscribed"]
  /\ memoizationCache' = IF mCallers[c].piped
                         THEN memoFinalize(memoizationCache, mCallers[c].key)
                         ELSE memoizationCache
  /\ UNCHANGED <<mCfg, mNow, mInvoked, mExecCount, mRecent, mLastEvict, mCleared>>

\* target.clear<Method>Cache().
MemoClear ==
  /\ mCleared < MaxMemoClears
  /\ memoizationCache # <<>>
  /\ mCleared' = mCleared + 1
  /\ memoizationCache' = <<>>
  /\ UNCHANGED <<mCfg, mNow, mCallers, mInvoked, mExecCount, mRecent, mLastEvict>>

MemoTick ==
  /\ mNow < mCfg.maxTime
  /\ mNow' = mNow + 1
  /\ UNCHANGED <<mCfg, memoizationCache, mCallers, mInvoked, mExecCount, mRecent,
                 mLastEvict, mCleared>>

MemoNext ==
  \/ \E k \in mCfg.keys : MemoCall(k) /\ UNCHANGED <<shareVars, queueVars, retryVars, cacheVars, pollVars, bulkVars, replayVars, delayVars, flagVars, wrapVars>>
  \/ \E c \in DOMAIN mCallers : MemoSubscribe(c) /\ UNCHANGED <<shareVars, queueVars, retryVars, cacheVars, pollVars, bulkVars, replayVars, delayVars, flagVars, wrapVars>>
  \/ \E c \in DOMAIN mCallers, res \in {"value", "error"} :
        MemoSettle(c, res) /\ UNCHANGED <<shareVars, queueVars, retryVars, cacheVars, pollVars, bulkVars, replayVars, delayVars, flagVars, wrapVars>>
  \/ \E c \in DOMAIN mCallers : MemoUnsubscribe(c) /\ UNCHANGED <<shareVars, queueVars, retryVars, cacheVars, pollVars, bulkVars, replayVars, delayVars, flagVars, wrapVars>>
  \/ MemoClear /\ UNCHANGED <<shareVars, queueVars, retryVars, cacheVars, pollVars, bulkVars, replayVars, delayVars, flagVars, wrapVars>>
  \/ MemoTick /\ UNCHANGED <<shareVars, queueVars, retryVars, cacheVars, pollVars, bulkVars, replayVars, delayVars, flagVars, wrapVars>>

\* C31: a call made for a key while the execution of an earlier call for that
\* key is still loading does not invoke the method; it is attached to that
\* execution and receives its result.
C31_MemoCoalescing ==
  \A d \in DOMAIN mCallers :
    LET c == mCallers[d].joined IN
      c # 0 =>
        /\ ~mCallers[d].piped
        /\ mCallers[d].exec # 0 => mCallers[d].exec = mCallers[c].exec
        /\ mCallers[d].st \in {"done", "errored"} =>
              mCallers[d].got.exec = mCallers[c].exec

\* C32: with maxSize set the cache of the method never holds more than maxSize
\* entries, and the entry evicted for a new key is the least recently used one,
\* a call answered from the cache counting as a use.
C32_MemoLruBound ==
  /\ mCfg.maxSize # 0 => Len(memoizationCache) <= mCfg.maxSize
  /\ mLastEvict.made => mLastEvict.key = mLastEvict.lru

(***************************************************************************)
(*   BlockUntilComplete, ShareExecution(cooldownTime) and                  *)
(*   ShareExecutionWithCache: one flag set per decorated method            *)
(***************************************************************************)
FlagVariants == {"block", "share", "withCache"}
FlagKinds == {"observable", "promise"}
FlagArgs == {"x", "y"}
MaxFlagCalls == 3
MaxFlagTime == 3
Cooldown == 2
Undefined == 0 - 1

\* BlockUntilComplete has no cooldown; ShareExecution is applied without one,
\* with 0 and with Cooldown; ShareExecutionWithCache with Cooldown.
FlagConfigs ==
  {cfg \in [variant : FlagVariants, kind : FlagKinds, cooldownTime : {Undefined, 0, Cooldown}] :
     /\ cfg.variant = "block" => cfg.cooldownTime = Undefined
     /\ cfg.variant = "withCache" => cfg.cooldownTime = Cooldown}

NoFlagConfig == [variant |-> "none", kind |-> "none", cooldownTime |-> Undefined]

NoEnd == [time |-> 0, how |-> "none"]

NoFlagCall ==
  [made |-> FALSE, args |-> "none", invoked |-> FALSE, h |-> 0, inflight |-> FALSE,
   cooling |-> FALSE, expired |-> FALSE, flagged |-> FALSE, earlier |-> {}]

\* What a call hands to its caller instead of a result of the method.
Empty == 0
Threw == 0 - 1

\* The closure variables of the decorated method.
Closure == [isExecuting |-> isExecuting, cooldownActive |-> cooldownActive,
            sharedResult |-> sharedResult, timers |-> fTimers]

\* The callback handed to finalize: it runs when the subscription of the
\* method's Observable ends.
finalizeCallback(F, now) ==
  IF fCfg.variant = "block"
  THEN [F EXCEPT !.isExecuting = FALSE]
  ELSE IF fCfg.variant = "share" /\ fCfg.cooldownTime = Undefined
  THEN [F EXCEPT !.isExecuting = FALSE, !.sharedResult = 0]
  ELSE [F EXCEPT !.isExecuting = FALSE, !.cooldownActive = TRUE,
                 !.timers = @ \cup {now + fCfg.cooldownTime}]

SetClosure(F) ==
  /\ isExecuting' = F.isExecuting
  /\ cooldownActive' = F.cooldownActive
  /\ sharedResult' = F.sharedResult
  /\ fTimers' = F.timers

FlagSubscribers(s) ==
  {c \in DOMAIN fCallers : fCallers[c].h = s /\ fCallers[c].st = "subscribed"}

FlagRunning == {s \in DOMAIN fShared : fShared[s].conn = "running"}

\* The last execution that ended completed, less than cooldownTime ago.
Cooling == fLastEnd.how = "value" /\ fNow - fLastEnd.time < fCfg.cooldownTime

\* descriptor.value(...args)
FlagCall(a) ==
  /\ Len(fCallers) < MaxFlagCalls
  /\ LET s == Len(fShared) + 1
         caller == [args |-> a, h |-> Empty, st |-> "created", got |-> NoOutcome]
         blocked == IF fCfg.variant = "block" THEN isExecuting
                    ELSE cooldownActive \/ isExecuting
         eager == fCfg.variant = "withCache" /\ fCfg.kind = "promise"
         last == [made |-> TRUE, args |-> a, invoked |-> ~blocked, h |-> Empty,
                  inflight |-> FlagRunning # {}, cooling |-> Cooling,
                  expired |-> /\ fLastEnd.how = "value"
                              /\ fNow - fLastEnd.time > fCfg.cooldownTime
                              /\ FlagRunning = {}
                              /\ \A j \in DOMAIN fShared : fShared[j].exec # 0,
                  flagged |-> blocked,
                  earlier |-> {fShared[j].args : j \in DOMAIN fShared}]
     IN
       IF blocked
       THEN LET h == IF fCfg.variant = "block" THEN Empty ELSE sharedResult IN
            /\ fCallers' = Append(fCallers, [caller EXCEPT !.h = h])
            /\ fLastCall' = [last EXCEPT !.h = h]
            /\ UNCHANGED <<isExecuting, cooldownActive, sharedResult, fShared, fTimers,
                           fInvoked, fExecCount>>
       ELSE IF fCfg.kind = "promise" /\ fCfg.variant # "withCache"
       THEN \* throw new Error('Method ... must return an Observable')
            /\ fInvoked' = fInvoked + 1
            /\ fCallers' = Append(fCallers, [caller EXCEPT !.h = Threw, !.st = "threw"])
            /\ fLastCall' = [last EXCEPT !.h = Threw]
            /\ UNCHANGED <<isExecuting, cooldownActive, sharedResult, fShared, fTimers,
                           fExecCount>>
       ELSE /\ fInvoked' = fInvoked + 1
            /\ isExecuting' = TRUE
            /\ sharedResult' = IF fCfg.variant = "block" THEN sharedResult ELSE s
            /\ fShared' = Append(fShared,
                                 [args |-> a, eager |-> eager,
                                  conn |-> IF eager THEN "running" ELSE "cold",
                                  exec |-> IF eager THEN fExecCount + 1 ELSE 0])
            /\ fExecCount' = IF eager THEN fExecCount + 1 ELSE fExecCount
            /\ fCallers' = Append(fCallers, [caller EXCEPT !.h = s])
            /\ fLastCall' = [last EXCEPT !.h = s]
            /\ UNCHANGED <<cooldownActive, fTimers>>
  /\ UNCHANGED <<fCfg, fNow, fLastEnd>>

\* The caller subscribes to (or awaits) what the call returned. EMPTY completes
\* at once; a completed shareReplay replays its value; a shared result that is
\* not connected subscribes the method's Observable, which executes it.
FlagSubscribe(c) ==
  /\ fCallers[c].st = "created"
  /\ LET s == fCallers[c].h IN
       IF s = Empty
       THEN /\ fCallers' = [fCallers EXCEPT ![c].st = "done"]
            /\ UNCHANGED <<fShared, fExecCount>>
       ELSE IF fShared[s].conn \in {"completed", "errored"}
       THEN /\ fCallers' =
                 [fCallers EXCEPT
                    ![c].st = IF fShared[s].conn = "completed" THEN "done" ELSE "errored",
                    ![c].got = [kind |-> IF fShared[s].conn = "completed"
                                         THEN "value" ELSE "error",
                                exec |-> fShared[s].exec]]
            /\ UNCHANGED <<fShared, fExecCount>>
       ELSE IF fShared[s].conn = "running"
       THEN /\ fCallers' = [fCallers EXCEPT ![c].st = "subscribed"]
            /\ UNCHANGED <<fShared, fExecCount>>
       ELSE /\ fCallers' = [fCallers EXCEPT ![c].st = "subscribed"]
            /\ fShared' = [fShared EXCEPT ![s].conn = "running", ![s].exec = fExecCount + 1]
            /\ fExecCount' = fExecCount + 1
  /\ UNCHANGED <<fCfg, fNow, isExecuting, cooldownActive, sharedResult, fTimers, fInvoked,
                 fLastEnd, fLastCall>>

\* The execution of shared result s emits its value and completes, or fails:
\* its subscribers are notified, finalize runs the callback, shareReplay keeps
\* the value of a completed execution and is reset by a failed one.
FlagSettle(s, res) ==
  /\ fShared[s].conn = "running"
  /\ fCallers' = [c \in DOMAIN fCallers |->
                    IF c \in FlagSubscribers(s)
                    THEN [fCallers[c] EXCEPT
                            !.st = IF res = "value" THEN "done" ELSE "errored",
                            !.got = [kind |-> res, exec |-> fShared[s].exec]]
                    ELSE fCallers[c]]
  /\ fShared' = [fShared EXCEPT ![s].conn =
                    IF fCfg.variant = "block" THEN "cold"
                    ELSE IF res = "value" THEN "completed"
                    ELSE IF fShared[s].eager THEN "errored" ELSE "cold"]
  /\ SetClosure(finalizeCallback(Closure, fNow))
  /\ fLastEnd' = [time |-> fNow, how |-> res]
  /\ UNCHANGED <<fCfg, fNow, fInvoked, fExecCount, fLastCall>>

\* A subscriber unsubscribes before the settlement. Without sharing, and with
\* shareReplay({refCount: true}) when it was the last subscriber, the method's
\* Observable is unsubscribed and finalize runs the callback.
FlagUnsubscribe(c) ==
  /\ fCallers[c].st = "subscribed"
  /\ LET s == fCallers[c].h
         tearDown == /\ fShared[s].conn = "running"
                     /\ \/ fCfg.variant = "block"
                        \/ fCfg.variant = "share" /\ FlagSubscribers(s) = {c}
     IN
       /\ ~fShared[s].eager
       /\ fCallers' = [fCallers EXCEPT ![c].st = "unsubscribed"]
       /\ IF tearDown
          THEN /\ fShared' = [fShared EXCEPT ![s].conn = "cold"]
               /\ SetClosure(finalizeCallback(Closure, fNow))
               /\ fLastEnd' = [time |-> fNow, how |-> "unsubscribed"]
          ELSE UNCHANGED <<fShared, isExecuting, cooldownActive, sharedResult, fTimers,
                           fLastEnd>>
  /\ UNCHANGED <<fCfg, fNow, fInvoked, fExecCount, fLastCall>>

\* timer(cooldownTime) emits.
FlagTimerFires ==
  /\ \E t \in fTimers :
       /\ t <= fNow
       /\ fTimers' = fTimers \ {t}
  /\ cooldownActive' = FALSE
  /\ sharedResult' = IF fCfg.variant = "share" THEN 0 ELSE sharedResult
  /\ UNCHANGED <<fCfg, fNow, isExecuting, fShared, fCallers, fInvoked, fExecCount, fLastEnd,
                 fLastCall>>

\* A millisecond passes; timers that are due fire first.
FlagTick ==
  /\ fNow < MaxFlagTime
  /\ \A t \in fTimers : t > fNow
  /\ fNow' = fNow + 1
  /\ UNCHANGED <<fCfg, isExecuting, cooldownActive, sharedResult, fShared, fCallers,
                 fTimers, fInvoked, fExecCount, fLastEnd, fLastCall>>

FlagNext ==
  \/ \E a \in FlagArgs : FlagCall(a) /\ UNCHANGED <<shareVars, queueVars, retryVars, cacheVars, pollVars, bulkVars, replayVars, delayVars, memoVars, wrapVars>>
  \/ \E c \in DOMAIN fCallers : FlagSubscribe(c) /\ UNCHANGED <<shareVars, queueVars, retryVars, cacheVars, pollVars, bulkVars, replayVars, delayVars, memoVars, wrapVars>>
  \/ \E s \in DOMAIN fShared, res \in {"value", "error"} :
        FlagSettle(s, res) /\ UNCHANGED <<shareVars, queueVars, retryVars, cacheVars, pollVars, bulkVars, replayVars, delayVars, memoVars, wrapVars>>
  \/ \E c \in DOMAIN fCallers : FlagUnsubscribe(c) /\ UNCHANGED <<shareVars, queueVars, retryVars, cacheVars, pollVars, bulkVars, replayVars, delayVars, memoVars, wrapVars>>
  \/ FlagTimerFires /\ UNCHANGED <<shareVars, queueVars, retryVars, cacheVars, pollVars, bulkVars, replayVars, delayVars, memoVars, wrapVars>>
  \/ FlagTick /\ UNCHANGED <<shareVars, queueVars, retryVars, cacheVars, pollVars, bulkVars, replayVars, delayVars, memoVars, wrapVars>>

\* C34: under BlockUntilComplete a call is blocked (it returns EMPTY and does
\* not invoke the method) exactly when an execution of the method is in flight,
\* and the method is never blocked while nothing is executing.
C34_BlockedOnlyWhileExecuting ==
  fCfg.variant = "block" =>
    /\ fLastCall.made => (~fLastCall.invoked <=> fLastCall.inflight)
    /\ fLastCall.made /\ ~fLastCall.invoked => fLastCall.h = Empty
    /\ isExecuting => FlagRunning # {}

\* C35: with a cooldown c (ShareExecution with cooldownTime, and
\* ShareExecutionWithCache) a call made while an execution is in flight, or less
\* than c after the last execution completed, does not invoke the method and
\* returns the shared result; a call made more than c after the last execution
\* completed, with nothing in flight or waiting to be subscribed, invokes the
\* method.
C35_CooldownSharing ==
  fCfg.variant \in {"share", "withCache"} /\ fCfg.cooldownTime # Undefined /\ fLastCall.made =>
    /\ fLastCall.inflight \/ fLastCall.cooling => ~fLastCall.invoked /\ fLastCall.h > 0
    /\ fLastCall.expired => fLastCall.invoked

\* C36: the sharing decorators with a cooldown keep one flag set per decorated
\* method, so a call with arguments (or an instance) no earlier call had, made while an
\* execution is in flight or cooling down, does not invoke the method: it is
\* handed the shared result of an earlier call, made with other arguments.
C36_FlagIgnoresArguments ==
  /\ fCfg.variant \in {"share", "withCache"} /\ fCfg.cooldownTime # Undefined
  /\ fLastCall.made
  /\ fLastCall.inflight \/ fLastCall.cooling
  /\ fLastCall.args \notin fLastCall.earlier
  => /\ ~fLastCall.invoked
     /\ fLastCall.h > 0
     /\ fShared[fLastCall.h].args # fLastCall.args

(***************************************************************************)
(*   Decorator options: the checks made when ShareExecution(cooldownTime)  *)
(*   and BulkOperator({batchSize}) are applied, and the first use of the   *)
(*   option by a call                                                      *)
(***************************************************************************)
WrapDecorators == {"ShareExecution", "BulkOperator"}
MinOption == 0 - 2
MaxOption == 3
MaxWrapItems == 3
MaxSplitSteps == 4
DefaultBatchSize == 10

\* given: the option was passed; an option that is not passed has no value.
WrapConfigs ==
  {cfg \in [decorator : WrapDecorators, given : BOOLEAN, option : MinOption..MaxOption,
            items : 0..MaxWrapItems] :
     /\ ~cfg.given => cfg.option = 0
     /\ cfg.decorator = "ShareExecution" => cfg.items = 0}

NoWrapConfig == [decorator |-> "none", given |-> FALSE, option |-> 0, items |-> 0]

\* const { batchSize = 10 } = options
batchSize == IF wCfg.given THEN wCfg.option ELSE DefaultBatchSize

\* A negative cooldownTime, a batchSize that is not positive.
InvalidOption ==
  /\ wCfg.given
  /\ \/ wCfg.decorator = "ShareExecution" /\ wCfg.option < 0
     \/ wCfg.decorator = "BulkOperator" /\ wCfg.option <= 0

\* The decorator is applied to the method: ShareExecution throws for a negative
\* cooldownTime, BulkOperator checks nothing.
WrapApply ==
  /\ wPc = "applying"
  /\ wPc' = IF wCfg.decorator = "ShareExecution" /\ wCfg.given /\ wCfg.option < 0
            THEN "rejected" ELSE "wrapped"
  /\ UNCHANGED <<wCfg, wI, wBatches>>

\* A call of the wrapped method, up to the first use of the option: BulkOperator
\* returns of([]) for no items and otherwise starts to split the items.
WrapCall ==
  /\ wPc = "wrapped"
  /\ wPc' = IF wCfg.decorator = "BulkOperator" /\ wCfg.items > 0
            THEN "splitting" ELSE "returned"
  /\ UNCHANGED <<wCfg, wI, wBatches>>

\* One round of for (let i = 0; i < items.length; i += batchSize) batches.push(...)
WrapSplitStep ==
  /\ wPc = "splitting"
  /\ IF wI < wCfg.items
     THEN /\ wBatches < MaxSplitSteps
          /\ wBatches' = wBatches + 1
          /\ wI' = wI + batchSize
          /\ UNCHANGED wPc
     ELSE /\ wPc' = "returned"
          /\ UNCHANGED <<wI, wBatches>>
  /\ UNCHANGED wCfg

WrapNext ==
  \/ WrapApply /\ UNCHANGED <<shareVars, queueVars, retryVars, cacheVars, pollVars, bulkVars, replayVars, delayVars, memoVars, flagVars>>
  \/ WrapCall /\ UNCHANGED <<shareVars, queueVars, retryVars, cacheVars, pollVars, bulkVars, replayVars, delayVars, memoVars, flagVars>>
  \/ WrapSplitStep /\ UNCHANGED <<shareVars, queueVars, retryVars, cacheVars, pollVars, bulkVars, replayVars, delayVars, memoVars, flagVars>>

\* C33: an invalid option (a negative cooldownTime of ShareExecution, a
\* batchSize of BulkOperator that is not positive) makes the application of the
\* decorator fail: the method is never wrapped with it, so no call runs with it.
C33_InvalidOptionsRejectedAtWrap ==
  InvalidOption => wPc \in {"applying", "rejected"}

(***************************************************************************)
(*                            Specifications                               *)
(***************************************************************************)
\* A decorated method of either kind, nothing called yet; the queue is idle.
ShareInit ==
  /\ methodKind \in Kinds
  /\ executionCache = [k \in Keys |-> 0]
  /\ shared = <<>>
  /\ callers = <<>>
  /\ invoked = [k \in Keys |-> 0]
  /\ settledCount = [k \in Keys |-> 0]
  /\ execCount = 0
  /\ qItems = <<>>
  /\ qEnqueued = <<>>
  /\ qStarted = <<>>
  /\ qBuffer = <<>>
  /\ qActive = 0
  /\ qWorkerAlive = TRUE
  /\ rCfg = NoRetryConfig
  /\ rPc = "idle"
  /\ rAttempt = 0
  /\ rOpRuns = 0
  /\ rLastError = "none"
  /\ rPromise = "pending"
  /\ rDelay = 0
  /\ rOutcome = NoResult
  /\ cCfg = NoCacheConfig
  /\ cNow = 1
  /\ memoryCache = [k \in AllCacheKeys |-> NoEntry]
  /\ lruKeys = <<>>
  /\ cacheGroups = [g \in Groups |-> {}]
  /\ cCalls = <<>>
  /\ cFetches = <<>>
  /\ cTimers = <<>>
  /\ cInvoked = [k \in AllCacheKeys |-> 0]
  /\ cNextOid = 1
  /\ cStored = [k \in AllCacheKeys |-> NotStored]
  /\ cLastInsert = NoInsert
  /\ cLastCall = NoCall
  /\ cAdmin = 0
  /\ cLastAdmin = NoAdmin
  /\ cStorage = [k \in AllCacheKeys |-> NoEntry]
  /\ pCfg = NoPollConfig
  /\ pNow = 0
  /\ pPc = "idle"
  /\ startTime = 0
  /\ pNextTick = 0
  /\ attemptCount = 0
  /\ lastValue = "null"
  /\ stopSubject = "open"
  /\ pDuration = "none"
  /\ pOuterDone = FALSE
  /\ pInner = "none"
  /\ pInvoked = 0
  /\ pDropped = 0
  /\ pCompleteLog = <<>>
  /\ pAttemptLog = <<>>
  /\ pDelivered = <<>>
  /\ pOutcome = "none"
  /\ pPredTrue = FALSE
  /\ pEndCause = "none"
  /\ bCfg = NoBulkConfig
  /\ bPc = "idle"
  /\ bBatch = 0
  /\ bOps = [i \in 1..NItems |-> "waiting"]
  /\ bSettled = [i \in 1..NItems |-> "none"]
  /\ bBatchResults = <<>>
  /\ allResults = <<>>
  /\ bEmitted = 0
  /\ bSub = "no"
  /\ bReceived = <<>>
  /\ srKind = "observable"
  /\ srNow = 0
  /\ instancesCache = 0
  /\ srShared = <<>>
  /\ srCallers = <<>>
  /\ srTimers = {}
  /\ srInvoked = 0
  /\ srDone = {}
  /\ srLastCall = NoReplayCall
  /\ dCfg = NoDelayConfig
  /\ dDelays = <<>>
  /\ mCfg = NoMemoConfig
  /\ mNow = 0
  /\ memoizationCache = <<>>
  /\ mCallers = <<>>
  /\ mInvoked = [k \in MemoKeys |-> 0]
  /\ mExecCount = 0
  /\ mRecent = <<>>
  /\ mLastEvict = NoEvict
  /\ mCleared = 0
  /\ fCfg = NoFlagConfig
  /\ fNow = 0
  /\ isExecuting = FALSE
  /\ cooldownActive = FALSE
  /\ sharedResult = 0
  /\ fShared = <<>>
  /\ fCallers = <<>>
  /\ fTimers = {}
  /\ fInvoked = 0
  /\ fExecCount = 0
  /\ fLastEnd = NoEnd
  /\ fLastCall = NoFlagCall
  /\ wCfg = NoWrapConfig
  /\ wPc = "applying"
  /\ wI = 0
  /\ wBatches = 0

SpecShare == ShareInit /\ [][ShareNext]_vars

\* The queue of one queue id right after the decorator created it and
\* subscribed its worker.
QueueInit ==
  /\ methodKind = "observable"
  /\ executionCache = [k \in Keys |-> 0]
  /\ shared = <<>>
  /\ callers = <<>>
  /\ invoked = [k \in Keys |-> 0]
  /\ settledCount = [k \in Keys |-> 0]
  /\ execCount = 0
  /\ qItems = <<>>
  /\ qEnqueued = <<>>
  /\ qStarted = <<>>
  /\ qBuffer = <<>>
  /\ qActive = 0
  /\ qWorkerAlive = TRUE
  /\ rCfg = NoRetryConfig
  /\ rPc = "idle"
  /\ rAttempt = 0
  /\ rOpRuns = 0
  /\ rLastError = "none"
  /\ rPromise = "pending"
  /\ rDelay = 0
  /\ rOutcome = NoResult
  /\ cCfg = NoCacheConfig
  /\ cNow = 1
  /\ memoryCache = [k \in AllCacheKeys |-> NoEntry]
  /\ lruKeys = <<>>
  /\ cacheGroups = [g \in Groups |-> {}]
  /\ cCalls = <<>>
  /\ cFetches = <<>>
  /\ cTimers = <<>>
  /\ cInvoked = [k \in AllCacheKeys |-> 0]
  /\ cNextOid = 1
  /\ cStored = [k \in AllCacheKeys |-> NotStored]
  /\ cLastInsert = NoInsert
  /\ cLastCall = NoCall
  /\ cAdmin = 0
  /\ cLastAdmin = NoAdmin
  /\ cStorage = [k \in AllCacheKeys |-> NoEntry]
  /\ pCfg = NoPollConfig
  /\ pNow = 0
  /\ pPc = "idle"
  /\ startTime = 0
  /\ pNextTick = 0
  /\ attemptCount = 0
  /\ lastValue = "null"
  /\ stopSubject = "open"
  /\ pDuration = "none"
  /\ pOuterDone = FALSE
  /\ pInner = "none"
  /\ pInvoked = 0
  /\ pDropped = 0
  /\ pCompleteLog = <<>>
  /\ pAttemptLog = <<>>
  /\ pDelivered = <<>>
  /\ pOutcome = "none"
  /\ pPredTrue = FALSE
  /\ pEndCause = "none"
  /\ bCfg = NoBulkConfig
  /\ bPc = "idle"
  /\ bBatch = 0
  /\ bOps = [i \in 1..NItems |-> "waiting"]
  /\ bSettled = [i \in 1..NItems |-> "none"]
  /\ bBatchResults = <<>>
  /\ allResults = <<>>
  /\ bEmitted = 0
  /\ bSub = "no"
  /\ bReceived = <<>>
  /\ srKind = "observable"
  /\ srNow = 0
  /\ instancesCache = 0
  /\ srShared = <<>>
  /\ srCallers = <<>>
  /\ srTimers = {}
  /\ srInvoked = 0
  /\ srDone = {}
  /\ srLastCall = NoReplayCall
  /\ dCfg = NoDelayConfig
  /\ dDelays = <<>>
  /\ mCfg = NoMemoConfig
  /\ mNow = 0
  /\ memoizationCache = <<>>
  /\ mCallers = <<>>
  /\ mInvoked = [k \in MemoKeys |-> 0]
  /\ mExecCount = 0
  /\ mRecent = <<>>
  /\ mLastEvict = NoEvict
  /\ mCleared = 0
  /\ fCfg = NoFlagConfig
  /\ fNow = 0
  /\ isExecuting = FALSE
  /\ cooldownActive = FALSE
  /\ sharedResult = 0
  /\ fShared = <<>>
  /\ fCallers = <<>>
  /\ fTimers = {}
  /\ fInvoked = 0
  /\ fExecCount = 0
  /\ fLastEnd = NoEnd
  /\ fLastCall = NoFlagCall
  /\ wCfg = NoWrapConfig
  /\ wPc = "applying"
  /\ wI = 0
  /\ wBatches = 0

SpecQueue == QueueInit /\ [][QueueNext]_vars

\* One call of a method decorated with any SmartRetry options.
RetryInit ==
  /\ methodKind = "observable"
  /\ executionCache = [k \in Keys |-> 0]
  /\ shared = <<>>
  /\ callers = <<>>
  /\ invoked = [k \in Keys |-> 0]
  /\ settledCount = [k \in Keys |-> 0]
  /\ execCount = 0
  /\ qItems = <<>>
  /\ qEnqueued = <<>>
  /\ qStarted = <<>>
  /\ qBuffer = <<>>
  /\ qActive = 0
  /\ qWorkerAlive = TRUE
  /\ rCfg \in RetryConfigs
  /\ rPc = "idle"
  /\ rAttempt = 0
  /\ rOpRuns = 0
  /\ rLastError = "none"
  /\ rPromise = "pending"
  /\ rDelay = 0
  /\ rOutcome = NoResult
  /\ cCfg = NoCacheConfig
  /\ cNow = 1
  /\ memoryCache = [k \in AllCacheKeys |-> NoEntry]
  /\ lruKeys = <<>>
  /\ cacheGroups = [g \in Groups |-> {}]
  /\ cCalls = <<>>
  /\ cFetches = <<>>
  /\ cTimers = <<>>
  /\ cInvoked = [k \in AllCacheKeys |-> 0]
  /\ cNextOid = 1
  /\ cStored = [k \in AllCacheKeys |-> NotStored]
  /\ cLastInsert = NoInsert
  /\ cLastCall = NoCall
  /\ cAdmin = 0
  /\ cLastAdmin = NoAdmin
  /\ cStorage = [k \in AllCacheKeys |-> NoEntry]
  /\ pCfg = NoPollConfig
  /\ pNow = 0
  /\ pPc = "idle"
  /\ startTime = 0
  /\ pNextTick = 0
  /\ attemptCount = 0
  /\ lastValue = "null"
  /\ stopSubject = "open"
  /\ pDuration = "none"
  /\ pOuterDone = FALSE
  /\ pInner = "none"
  /\ pInvoked = 0
  /\ pDropped = 0
  /\ pCompleteLog = <<>>
  /\ pAttemptLog = <<>>
  /\ pDelivered = <<>>
  /\ pOutcome = "none"
  /\ pPredTrue = FALSE
  /\ pEndCause = "none"
  /\ bCfg = NoBulkConfig
  /\ bPc = "idle"
  /\ bBatch = 0
  /\ bOps = [i \in 1..NItems |-> "waiting"]
  /\ bSettled = [i \in 1..NItems |-> "none"]
  /\ bBatchResults = <<>>
  /\ allResults = <<>>
  /\ bEmitted = 0
  /\ bSub = "no"
  /\ bReceived = <<>>
  /\ srKind = "observable"
  /\ srNow = 0
  /\ instancesCache = 0
  /\ srShared = <<>>
  /\ srCallers = <<>>
  /\ srTimers = {}
  /\ srInvoked = 0
  /\ srDone = {}
  /\ srLastCall = NoReplayCall
  /\ dCfg = NoDelayConfig
  /\ dDelays = <<>>
  /\ mCfg = NoMemoConfig
  /\ mNow = 0
  /\ memoizationCache = <<>>
  /\ mCallers = <<>>
  /\ mInvoked = [k \in MemoKeys |-> 0]
  /\ mExecCount = 0
  /\ mRecent = <<>>
  /\ mLastEvict = NoEvict
  /\ mCleared = 0
  /\ fCfg = NoFlagConfig
  /\ fNow = 0
  /\ isExecuting = FALSE
  /\ cooldownActive = FALSE
  /\ sharedResult = 0
  /\ fShared = <<>>
  /\ fCallers = <<>>
  /\ fTimers = {}
  /\ fInvoked = 0
  /\ fExecCount = 0
  /\ fLastEnd = NoEnd
  /\ fLastCall = NoFlagCall
  /\ wCfg = NoWrapConfig
  /\ wPc = "applying"
  /\ wI = 0
  /\ wBatches = 0

SpecRetry == RetryInit /\ [][RetryNext]_vars

\* A method decorated with any ObservableCache options, nothing cached yet.
CacheInit ==
  /\ methodKind = "observable"
  /\ executionCache = [k \in Keys |-> 0]
  /\ shared = <<>>
  /\ callers = <<>>
  /\ invoked = [k \in Keys |-> 0]
  /\ settledCount = [k \in Keys |-> 0]
  /\ execCount = 0
  /\ qItems = <<>>
  /\ qEnqueued = <<>>
  /\ qStarted = <<>>
  /\ qBuffer = <<>>
  /\ qActive = 0
  /\ qWorkerAlive = TRUE
  /\ rCfg = NoRetryConfig
  /\ rPc = "idle"
  /\ rAttempt = 0
  /\ rOpRuns = 0
  /\ rLastError = "none"
  /\ rPromise = "pending"
  /\ rDelay = 0
  /\ rOutcome = NoResult
  /\ cCfg \in CacheConfigs
  /\ cNow = 1
  /\ memoryCache = [k \in AllCacheKeys |-> NoEntry]
  /\ lruKeys = <<>>
  /\ cacheGroups = [g \in Groups |-> {}]
  /\ cCalls = <<>>
  /\ cFetches = <<>>
  /\ cTimers = <<>>
  /\ cInvoked = [k \in AllCacheKeys |-> 0]
  /\ cNextOid = 1
  /\ cStored = [k \in AllCacheKeys |-> NotStored]
  /\ cLastInsert = NoInsert
  /\ cLastCall = NoCall
  /\ cAdmin = 0
  /\ cLastAdmin = NoAdmin
  /\ cStorage = [k \in AllCacheKeys |-> NoEntry]
  /\ pCfg = NoPollConfig
  /\ pNow = 0
  /\ pPc = "idle"
  /\ startTime = 0
  /\ pNextTick = 0
  /\ attemptCount = 0
  /\ lastValue = "null"
  /\ stopSubject = "open"
  /\ pDuration = "none"
  /\ pOuterDone = FALSE
  /\ pInner = "none"
  /\ pInvoked = 0
  /\ pDropped = 0
  /\ pCompleteLog = <<>>
  /\ pAttemptLog = <<>>
  /\ pDelivered = <<>>
  /\ pOutcome = "none"
  /\ pPredTrue = FALSE
  /\ pEndCause = "none"
  /\ bCfg = NoBulkConfig
  /\ bPc = "idle"
  /\ bBatch = 0
  /\ bOps = [i \in 1..NItems |-> "waiting"]
  /\ bSettled = [i \in 1..NItems |-> "none"]
  /\ bBatchResults = <<>>
  /\ allResults = <<>>
  /\ bEmitted = 0
  /\ bSub = "no"
  /\ bReceived = <<>>
  /\ srKind = "observable"
  /\ srNow = 0
  /\ instancesCache = 0
  /\ srShared = <<>>
  /\ srCallers = <<>>
  /\ srTimers = {}
  /\ srInvoked = 0
  /\ srDone = {}
  /\ srLastCall = NoReplayCall
  /\ dCfg = NoDelayConfig
  /\ dDelays = <<>>
  /\ mCfg = NoMemoConfig
  /\ mNow = 0
  /\ memoizationCache = <<>>
  /\ mCallers = <<>>
  /\ mInvoked = [k \in MemoKeys |-> 0]
  /\ mExecCount = 0
  /\ mRecent = <<>>
  /\ mLastEvict = NoEvict
  /\ mCleared = 0
  /\ fCfg = NoFlagConfig
  /\ fNow = 0
  /\ isExecuting = FALSE
  /\ cooldownActive = FALSE
  /\ sharedResult = 0
  /\ fShared = <<>>
  /\ fCallers = <<>>
  /\ fTimers = {}
  /\ fInvoked = 0
  /\ fExecCount = 0
  /\ fLastEnd = NoEnd
  /\ fLastCall = NoFlagCall
  /\ wCfg = NoWrapConfig
  /\ wPc = "applying"
  /\ wI = 0
  /\ wBatches = 0

SpecCache == CacheInit /\ [][CacheNext]_vars

\* Methods that share a bounded memory cache, nothing cached yet.
CacheLruInit ==
  /\ methodKind = "observable"
  /\ executionCache = [k \in Keys |-> 0]
  /\ shared = <<>>
  /\ callers = <<>>
  /\ invoked = [k \in Keys |-> 0]
  /\ settledCount = [k \in Keys |-> 0]
  /\ execCount = 0
  /\ qItems = <<>>
  /\ qEnqueued = <<>>
  /\ qStarted = <<>>
  /\ qBuffer = <<>>
  /\ qActive = 0
  /\ qWorkerAlive = TRUE
  /\ rCfg = NoRetryConfig
  /\ rPc = "idle"
  /\ rAttempt = 0
  /\ rOpRuns = 0
  /\ rLastError = "none"
  /\ rPromise = "pending"
  /\ rDelay = 0
  /\ rOutcome = NoResult
  /\ cCfg \in CacheLruConfigs
  /\ cNow = 1
  /\ memoryCache = [k \in AllCacheKeys |-> NoEntry]
  /\ lruKeys = <<>>
  /\ cacheGroups = [g \in Groups |-> {}]
  /\ cCalls = <<>>
  /\ cFetches = <<>>
  /\ cTimers = <<>>
  /\ cInvoked = [k \in AllCacheKeys |-> 0]
  /\ cNextOid = 1
  /\ cStored = [k \in AllCacheKeys |-> NotStored]
  /\ cLastInsert = NoInsert
  /\ cLastCall = NoCall
  /\ cAdmin = 0
  /\ cLastAdmin = NoAdmin
  /\ cStorage = [k \in AllCacheKeys |-> NoEntry]
  /\ pCfg = NoPollConfig
  /\ pNow = 0
  /\ pPc = "idle"
  /\ startTime = 0
  /\ pNextTick = 0
  /\ attemptCount = 0
  /\ lastValue = "null"
  /\ stopSubject = "open"
  /\ pDuration = "none"
  /\ pOuterDone = FALSE
  /\ pInner = "none"
  /\ pInvoked = 0
  /\ pDropped = 0
  /\ pCompleteLog = <<>>
  /\ pAttemptLog = <<>>
  /\ pDelivered = <<>>
  /\ pOutcome = "none"
  /\ pPredTrue = FALSE
  /\ pEndCause = "none"
  /\ bCfg = NoBulkConfig
  /\ bPc = "idle"
  /\ bBatch = 0
  /\ bOps = [i \in 1..NItems |-> "waiting"]
  /\ bSettled = [i \in 1..NItems |-> "none"]
  /\ bBatchResults = <<>>
  /\ allResults = <<>>
  /\ bEmitted = 0
  /\ bSub = "no"
  /\ bReceived = <<>>
  /\ srKind = "observable"
  /\ srNow = 0
  /\ instancesCache = 0
  /\ srShared = <<>>
  /\ srCallers = <<>>
  /\ srTimers = {}
  /\ srInvoked = 0
  /\ srDone = {}
  /\ srLastCall = NoReplayCall
  /\ dCfg = NoDelayConfig
  /\ dDelays = <<>>
  /\ mCfg = NoMemoConfig
  /\ mNow = 0
  /\ memoizationCache = <<>>
  /\ mCallers = <<>>
  /\ mInvoked = [k \in MemoKeys |-> 0]
  /\ mExecCount = 0
  /\ mRecent = <<>>
  /\ mLastEvict = NoEvict
  /\ mCleared = 0
  /\ fCfg = NoFlagConfig
  /\ fNow = 0
  /\ isExecuting = FALSE
  /\ cooldownActive = FALSE
  /\ sharedResult = 0
  /\ fShared = <<>>
  /\ fCallers = <<>>
  /\ fTimers = {}
  /\ fInvoked = 0
  /\ fExecCount = 0
  /\ fLastEnd = NoEnd
  /\ fLastCall = NoFlagCall
  /\ wCfg = NoWrapConfig
  /\ wPc = "applying"
  /\ wI = 0
  /\ wBatches = 0

SpecCacheLru == CacheLruInit /\ [][CacheNext]_vars

\* A method decorated with any PollingObservable options, not called yet.
PollInit ==
  /\ methodKind = "observable"
  /\ executionCache = [k \in Keys |-> 0]
  /\ shared = <<>>
  /\ callers = <<>>
  /\ invoked = [k \in Keys |-> 0]
  /\ settledCount = [k \in Keys |-> 0]
  /\ execCount = 0
  /\ qItems = <<>>
  /\ qEnqueued = <<>>
  /\ qStarted = <<>>
  /\ qBuffer = <<>>
  /\ qActive = 0
  /\ qWorkerAlive = TRUE
  /\ rCfg = NoRetryConfig
  /\ rPc = "idle"
  /\ rAttempt = 0
  /\ rOpRuns = 0
  /\ rLastError = "none"
  /\ rPromise = "pending"
  /\ rDelay = 0
  /\ rOutcome = NoResult
  /\ cCfg = NoCacheConfig
  /\ cNow = 1
  /\ memoryCache = [k \in AllCacheKeys |-> NoEntry]
  /\ lruKeys = <<>>
  /\ cacheGroups = [g \in Groups |-> {}]
  /\ cCalls = <<>>
  /\ cFetches = <<>>
  /\ cTimers = <<>>
  /\ cInvoked = [k \in AllCacheKeys |-> 0]
  /\ cNextOid = 1
  /\ cStored = [k \in AllCacheKeys |-> NotStored]
  /\ cLastInsert = NoInsert
  /\ cLastCall = NoCall
  /\ cAdmin = 0
  /\ cLastAdmin = NoAdmin
  /\ cStorage = [k \in AllCacheKeys |-> NoEntry]
  /\ pCfg \in PollConfigs
  /\ pNow = 0
  /\ pPc = "idle"
  /\ startTime = 0
  /\ pNextTick = 0
  /\ attemptCount = 0
  /\ lastValue = "null"
  /\ stopSubject = "open"
  /\ pDuration = "none"
  /\ pOuterDone = FALSE
  /\ pInner = "none"
  /\ pInvoked = 0
  /\ pDropped = 0
  /\ pCompleteLog = <<>>
  /\ pAttemptLog = <<>>
  /\ pDelivered = <<>>
  /\ pOutcome = "none"
  /\ pPredTrue = FALSE
  /\ pEndCause = "none"
  /\ bCfg = NoBulkConfig
  /\ bPc = "idle"
  /\ bBatch = 0
  /\ bOps = [i \in 1..NItems |-> "waiting"]
  /\ bSettled = [i \in 1..NItems |-> "none"]
  /\ bBatchResults = <<>>
  /\ allResults = <<>>
  /\ bEmitted = 0
  /\ bSub = "no"
  /\ bReceived = <<>>
  /\ srKind = "observable"
  /\ srNow = 0
  /\ instancesCache = 0
  /\ srShared = <<>>
  /\ srCallers = <<>>
  /\ srTimers = {}
  /\ srInvoked = 0
  /\ srDone = {}
  /\ srLastCall = NoReplayCall
  /\ dCfg = NoDelayConfig
  /\ dDelays = <<>>
  /\ mCfg = NoMemoConfig
  /\ mNow = 0
  /\ memoizationCache = <<>>
  /\ mCallers = <<>>
  /\ mInvoked = [k \in MemoKeys |-> 0]
  /\ mExecCount = 0
  /\ mRecent = <<>>
  /\ mLastEvict = NoEvict
  /\ mCleared = 0
  /\ fCfg = NoFlagConfig
  /\ fNow = 0
  /\ isExecuting = FALSE
  /\ cooldownActive = FALSE
  /\ sharedResult = 0
  /\ fShared = <<>>
  /\ fCallers = <<>>
  /\ fTimers = {}
  /\ fInvoked = 0
  /\ fExecCount = 0
  /\ fLastEnd = NoEnd
  /\ fLastCall = NoFlagCall
  /\ wCfg = NoWrapConfig
  /\ wPc = "applying"
  /\ wI = 0
  /\ wBatches = 0

SpecPoll == PollInit /\ [][PollNext]_vars

\* A method decorated with any BulkOperator options, not called yet.
BulkInit ==
  /\ methodKind = "observable"
  /\ executionCache = [k \in Keys |-> 0]
  /\ shared = <<>>
  /\ callers = <<>>
  /\ invoked = [k \in Keys |-> 0]
  /\ settledCount = [k \in Keys |-> 0]
  /\ execCount = 0
  /\ qItems = <<>>
  /\ qEnqueued = <<>>
  /\ qStarted = <<>>
  /\ qBuffer = <<>>
  /\ qActive = 0
  /\ qWorkerAlive = TRUE
  /\ rCfg = NoRetryConfig
  /\ rPc = "idle"
  /\ rAttempt = 0
  /\ rOpRuns = 0
  /\ rLastError = "none"
  /\ rPromise = "pending"
  /\ rDelay = 0
  /\ rOutcome = NoResult
  /\ cCfg = NoCacheConfig
  /\ cNow = 1
  /\ memoryCache = [k \in AllCacheKeys |-> NoEntry]
  /\ lruKeys = <<>>
  /\ cacheGroups = [g \in Groups |-> {}]
  /\ cCalls = <<>>
  /\ cFetches = <<>>
  /\ cTimers = <<>>
  /\ cInvoked = [k \in AllCacheKeys |-> 0]
  /\ cNextOid = 1
  /\ cStored = [k \in AllCacheKeys |-> NotStored]
  /\ cLastInsert = NoInsert
  /\ cLastCall = NoCall
  /\ cAdmin = 0
  /\ cLastAdmin = NoAdmin
  /\ cStorage = [k \in AllCacheKeys |-> NoEntry]
  /\ pCfg = NoPollConfig
  /\ pNow = 0
  /\ pPc = "idle"
  /\ startTime = 0
  /\ pNextTick = 0
  /\ attemptCount = 0
  /\ lastValue = "null"
  /\ stopSubject = "open"
  /\ pDuration = "none"
  /\ pOuterDone = FALSE
  /\ pInner = "none"
  /\ pInvoked = 0
  /\ pDropped = 0
  /\ pCompleteLog = <<>>
  /\ pAttemptLog = <<>>
  /\ pDelivered = <<>>
  /\ pOutcome = "none"
  /\ pPredTrue = FALSE
  /\ pEndCause = "none"
  /\ bCfg \in BulkConfigs
  /\ bPc = "idle"
  /\ bBatch = 0
  /\ bOps = [i \in 1..NItems |-> "waiting"]
  /\ bSettled = [i \in 1..NItems |-> "none"]
  /\ bBatchResults = <<>>
  /\ allResults = <<>>
  /\ bEmitted = 0
  /\ bSub = "no"
  /\ bReceived = <<>>
  /\ srKind = "observable"
  /\ srNow = 0
  /\ instancesCache = 0
  /\ srShared = <<>>
  /\ srCallers = <<>>
  /\ srTimers = {}
  /\ srInvoked = 0
  /\ srDone = {}
  /\ srLastCall = NoReplayCall
  /\ dCfg = NoDelayConfig
  /\ dDelays = <<>>
  /\ mCfg = NoMemoConfig
  /\ mNow = 0
  /\ memoizationCache = <<>>
  /\ mCallers = <<>>
  /\ mInvoked = [k \in MemoKeys |-> 0]
  /\ mExecCount = 0
  /\ mRecent = <<>>
  /\ mLastEvict = NoEvict
  /\ mCleared = 0
  /\ fCfg = NoFlagConfig
  /\ fNow = 0
  /\ isExecuting = FALSE
  /\ cooldownActive = FALSE
  /\ sharedResult = 0
  /\ fShared = <<>>
  /\ fCallers = <<>>
  /\ fTimers = {}
  /\ fInvoked = 0
  /\ fExecCount = 0
  /\ fLastEnd = NoEnd
  /\ fLastCall = NoFlagCall
  /\ wCfg = NoWrapConfig
  /\ wPc = "applying"
  /\ wI = 0
  /\ wBatches = 0

SpecBulk == BulkInit /\ [][BulkNext]_vars

\* A method cached in a storage backend, nothing cached yet.
CacheStorageInit ==
  /\ methodKind = "observable"
  /\ executionCache = [k \in Keys |-> 0]
  /\ shared = <<>>
  /\ callers = <<>>
  /\ invoked = [k \in Keys |-> 0]
  /\ settledCount = [k \in Keys |-> 0]
  /\ execCount = 0
  /\ qItems = <<>>
  /\ qEnqueued = <<>>
  /\ qStarted = <<>>
  /\ qBuffer = <<>>
  /\ qActive = 0
  /\ qWorkerAlive = TRUE
  /\ rCfg = NoRetryConfig
  /\ rPc = "idle"
  /\ rAttempt = 0
  /\ rOpRuns = 0
  /\ rLastError = "none"
  /\ rPromise = "pending"
  /\ rDelay = 0
  /\ rOutcome = NoResult
  /\ cCfg \in CacheStorageConfigs
  /\ cNow = 1
  /\ memoryCache = [k \in AllCacheKeys |-> NoEntry]
  /\ lruKeys = <<>>
  /\ cacheGroups = [g \in Groups |-> {}]
  /\ cCalls = <<>>
  /\ cFetches = <<>>
  /\ cTimers = <<>>
  /\ cInvoked = [k \in AllCacheKeys |-> 0]
  /\ cNextOid = 1
  /\ cStored = [k \in AllCacheKeys |-> NotStored]
  /\ cLastInsert = NoInsert
  /\ cLastCall = NoCall
  /\ cAdmin = 0
  /\ cLastAdmin = NoAdmin
  /\ cStorage = [k \in AllCacheKeys |-> NoEntry]
  /\ pCfg = NoPollConfig
  /\ pNow = 0
  /\ pPc = "idle"
  /\ startTime = 0
  /\ pNextTick = 0
  /\ attemptCount = 0
  /\ lastValue = "null"
  /\ stopSubject = "open"
  /\ pDuration = "none"
  /\ pOuterDone = FALSE
  /\ pInner = "none"
  /\ pInvoked = 0
  /\ pDropped = 0
  /\ pCompleteLog = <<>>
  /\ pAttemptLog = <<>>
  /\ pDelivered = <<>>
  /\ pOutcome = "none"
  /\ pPredTrue = FALSE
  /\ pEndCause = "none"
  /\ bCfg = NoBulkConfig
  /\ bPc = "idle"
  /\ bBatch = 0
  /\ bOps = [i \in 1..NItems |-> "waiting"]
  /\ bSettled = [i \in 1..NItems |-> "none"]
  /\ bBatchResults = <<>>
  /\ allResults = <<>>
  /\ bEmitted = 0
  /\ bSub = "no"
  /\ bReceived = <<>>
  /\ srKind = "observable"
  /\ srNow = 0
  /\ instancesCache = 0
  /\ srShared = <<>>
  /\ srCallers = <<>>
  /\ srTimers = {}
  /\ srInvoked = 0
  /\ srDone = {}
  /\ srLastCall = NoReplayCall
  /\ dCfg = NoDelayConfig
  /\ dDelays = <<>>
  /\ mCfg = NoMemoConfig
  /\ mNow = 0
  /\ memoizationCache = <<>>
  /\ mCallers = <<>>
  /\ mInvoked = [k \in MemoKeys |-> 0]
  /\ mExecCount = 0
  /\ mRecent = <<>>
  /\ mLastEvict = NoEvict
  /\ mCleared = 0
  /\ fCfg = NoFlagConfig
  /\ fNow = 0
  /\ isExecuting = FALSE
  /\ cooldownActive = FALSE
  /\ sharedResult = 0
  /\ fShared = <<>>
  /\ fCallers = <<>>
  /\ fTimers = {}
  /\ fInvoked = 0
  /\ fExecCount = 0
  /\ fLastEnd = NoEnd
  /\ fLastCall = NoFlagCall
  /\ wCfg = NoWrapConfig
  /\ wPc = "applying"
  /\ wI = 0
  /\ wBatches = 0

SpecCacheStorage == CacheStorageInit /\ [][CacheStorageNext]_vars

\* A method decorated with ShareReplay(duration), nothing called yet.
ReplayInit ==
  /\ methodKind = "observable"
  /\ executionCache = [k \in Keys |-> 0]
  /\ shared = <<>>
  /\ callers = <<>>
  /\ invoked = [k \in Keys |-> 0]
  /\ settledCount = [k \in Keys |-> 0]
  /\ execCount = 0
  /\ qItems = <<>>
  /\ qEnqueued = <<>>
  /\ qStarted = <<>>
  /\ qBuffer = <<>>
  /\ qActive = 0
  /\ qWorkerAlive = TRUE
  /\ rCfg = NoRetryConfig
  /\ rPc = "idle"
  /\ rAttempt = 0
  /\ rOpRuns = 0
  /\ rLastError = "none"
  /\ rPromise = "pending"
  /\ rDelay = 0
  /\ rOutcome = NoResult
  /\ cCfg = NoCacheConfig
  /\ cNow = 1
  /\ memoryCache = [k \in AllCacheKeys |-> NoEntry]
  /\ lruKeys = <<>>
  /\ cacheGroups = [g \in Groups |-> {}]
  /\ cCalls = <<>>
  /\ cFetches = <<>>
  /\ cTimers = <<>>
  /\ cInvoked = [k \in AllCacheKeys |-> 0]
  /\ cNextOid = 1
  /\ cStored = [k \in AllCacheKeys |-> NotStored]
  /\ cLastInsert = NoInsert
  /\ cLastCall = NoCall
  /\ cAdmin = 0
  /\ cLastAdmin = NoAdmin
  /\ cStorage = [k \in AllCacheKeys |-> NoEntry]
  /\ pCfg = NoPollConfig
  /\ pNow = 0
  /\ pPc = "idle"
  /\ startTime = 0
  /\ pNextTick = 0
  /\ attemptCount = 0
  /\ lastValue = "null"
  /\ stopSubject = "open"
  /\ pDuration = "none"
  /\ pOuterDone = FALSE
  /\ pInner = "none"
  /\ pInvoked = 0
  /\ pDropped = 0
  /\ pCompleteLog = <<>>
  /\ pAttemptLog = <<>>
  /\ pDelivered = <<>>
  /\ pOutcome = "none"
  /\ pPredTrue = FALSE
  /\ pEndCause = "none"
  /\ bCfg = NoBulkConfig
  /\ bPc = "idle"
  /\ bBatch = 0
  /\ bOps = [i \in 1..NItems |-> "waiting"]
  /\ bSettled = [i \in 1..NItems |-> "none"]
  /\ bBatchResults = <<>>
  /\ allResults = <<>>
  /\ bEmitted = 0
  /\ bSub = "no"
  /\ bReceived = <<>>
  /\ srKind \in ReplayKinds
  /\ srNow = 0
  /\ instancesCache = 0
  /\ srShared = <<>>
  /\ srCallers = <<>>
  /\ srTimers = {}
  /\ srInvoked = 0
  /\ srDone = {}
  /\ srLastCall = NoReplayCall
  /\ dCfg = NoDelayConfig
  /\ dDelays = <<>>
  /\ mCfg = NoMemoConfig
  /\ mNow = 0
  /\ memoizationCache = <<>>
  /\ mCallers = <<>>
  /\ mInvoked = [k \in MemoKeys |-> 0]
  /\ mExecCount = 0
  /\ mRecent = <<>>
  /\ mLastEvict = NoEvict
  /\ mCleared = 0
  /\ fCfg = NoFlagConfig
  /\ fNow = 0
  /\ isExecuting = FALSE
  /\ cooldownActive = FALSE
  /\ sharedResult = 0
  /\ fShared = <<>>
  /\ fCallers = <<>>
  /\ fTimers = {}
  /\ fInvoked = 0
  /\ fExecCount = 0
  /\ fLastEnd = NoEnd
  /\ fLastCall = NoFlagCall
  /\ wCfg = NoWrapConfig
  /\ wPc = "applying"
  /\ wI = 0
  /\ wBatches = 0

SpecReplay == ReplayInit /\ [][ReplayNext]_vars

\* A SmartRetry configuration with a deterministic strategy, no delay computed yet.
DelayInit ==
  /\ methodKind = "observable"
  /\ executionCache = [k \in Keys |-> 0]
  /\ shared = <<>>
  /\ callers = <<>>
  /\ invoked = [k \in Keys |-> 0]
  /\ settledCount = [k \in Keys |-> 0]
  /\ execCount = 0
  /\ qItems = <<>>
  /\ qEnqueued = <<>>
  /\ qStarted = <<>>
  /\ qBuffer = <<>>
  /\ qActive = 0
  /\ qWorkerAlive = TRUE
  /\ rCfg = NoRetryConfig
  /\ rPc = "idle"
  /\ rAttempt = 0
  /\ rOpRuns = 0
  /\ rLastError = "none"
  /\ rPromise = "pending"
  /\ rDelay = 0
  /\ rOutcome = NoResult
  /\ cCfg = NoCacheConfig
  /\ cNow = 1
  /\ memoryCache = [k \in AllCacheKeys |-> NoEntry]
  /\ lruKeys = <<>>
  /\ cacheGroups = [g \in Groups |-> {}]
  /\ cCalls = <<>>
  /\ cFetches = <<>>
  /\ cTimers = <<>>
  /\ cInvoked = [k \in AllCacheKeys |-> 0]
  /\ cNextOid = 1
  /\ cStored = [k \in AllCacheKeys |-> NotStored]
  /\ cLastInsert = NoInsert
  /\ cLastCall = NoCall
  /\ cAdmin = 0
  /\ cLastAdmin = NoAdmin
  /\ cStorage = [k \in AllCacheKeys |-> NoEntry]
  /\ pCfg = NoPollConfig
  /\ pNow = 0
  /\ pPc = "idle"
  /\ startTime = 0
  /\ pNextTick = 0
  /\ attemptCount = 0
  /\ lastValue = "null"
  /\ stopSubject = "open"
  /\ pDuration = "none"
  /\ pOuterDone = FALSE
  /\ pInner = "none"
  /\ pInvoked = 0
  /\ pDropped = 0
  /\ pCompleteLog = <<>>
  /\ pAttemptLog = <<>>
  /\ pDelivered = <<>>
  /\ pOutcome = "none"
  /\ pPredTrue = FALSE
  /\ pEndCause = "none"
  /\ bCfg = NoBulkConfig
  /\ bPc = "idle"
  /\ bBatch = 0
  /\ bOps = [i \in 1..NItems |-> "waiting"]
  /\ bSettled = [i \in 1..NItems |-> "none"]
  /\ bBatchResults = <<>>
  /\ allResults = <<>>
  /\ bEmitted = 0
  /\ bSub = "no"
  /\ bReceived = <<>>
  /\ srKind = "observable"
  /\ srNow = 0
  /\ instancesCache = 0
  /\ srShared = <<>>
  /\ srCallers = <<>>
  /\ srTimers = {}
  /\ srInvoked = 0
  /\ srDone = {}
  /\ srLastCall = NoReplayCall
  /\ dCfg \in DelayConfigs
  /\ dDelays = <<>>
  /\ mCfg = NoMemoConfig
  /\ mNow = 0
  /\ memoizationCache = <<>>
  /\ mCallers = <<>>
  /\ mInvoked = [k \in MemoKeys |-> 0]
  /\ mExecCount = 0
  /\ mRecent = <<>>
  /\ mLastEvict = NoEvict
  /\ mCleared = 0
  /\ fCfg = NoFlagConfig
  /\ fNow = 0
  /\ isExecuting = FALSE
  /\ cooldownActive = FALSE
  /\ sharedResult = 0
  /\ fShared = <<>>
  /\ fCallers = <<>>
  /\ fTimers = {}
  /\ fInvoked = 0
  /\ fExecCount = 0
  /\ fLastEnd = NoEnd
  /\ fLastCall = NoFlagCall
  /\ wCfg = NoWrapConfig
  /\ wPc = "applying"
  /\ wI = 0
  /\ wBatches = 0

SpecDelay == DelayInit /\ [][DelayNext]_vars

\* A method decorated with ObservableMemoize, its cache empty, no call made yet.
MemoInit ==
  /\ methodKind = "observable"
  /\ executionCache = [k \in Keys |-> 0]
  /\ shared = <<>>
  /\ callers = <<>>
  /\ invoked = [k \in Keys |-> 0]
  /\ settledCount = [k \in Keys |-> 0]
  /\ execCount = 0
  /\ qItems = <<>>
  /\ qEnqueued = <<>>
  /\ qStarted = <<>>
  /\ qBuffer = <<>>
  /\ qActive = 0
  /\ qWorkerAlive = TRUE
  /\ rCfg = NoRetryConfig
  /\ rPc = "idle"
  /\ rAttempt = 0
  /\ rOpRuns = 0
  /\ rLastError = "none"
  /\ rPromise = "pending"
  /\ rDelay = 0
  /\ rOutcome = NoResult
  /\ cCfg = NoCacheConfig
  /\ cNow = 1
  /\ memoryCache = [k \in AllCacheKeys |-> NoEntry]
  /\ lruKeys = <<>>
  /\ cacheGroups = [g \in Groups |-> {}]
  /\ cCalls = <<>>
  /\ cFetches = <<>>
  /\ cTimers = <<>>
  /\ cInvoked = [k \in AllCacheKeys |-> 0]
  /\ cNextOid = 1
  /\ cStored = [k \in AllCacheKeys |-> NotStored]
  /\ cLastInsert = NoInsert
  /\ cLastCall = NoCall
  /\ cAdmin = 0
  /\ cLastAdmin = NoAdmin
  /\ cStorage = [k \in AllCacheKeys |-> NoEntry]
  /\ pCfg = NoPollConfig
  /\ pNow = 0
  /\ pPc = "idle"
  /\ startTime = 0
  /\ pNextTick = 0
  /\ attemptCount = 0
  /\ lastValue = "null"
  /\ stopSubject = "open"
  /\ pDuration = "none"
  /\ pOuterDone = FALSE
  /\ pInner = "none"
  /\ pInvoked = 0
  /\ pDropped = 0
  /\ pCompleteLog = <<>>
  /\ pAttemptLog = <<>>
  /\ pDelivered = <<>>
  /\ pOutcome = "none"
  /\ pPredTrue = FALSE
  /\ pEndCause = "none"
  /\ bCfg = NoBulkConfig
  /\ bPc = "idle"
  /\ bBatch = 0
  /\ bOps = [i \in 1..NItems |-> "waiting"]
  /\ bSettled = [i \in 1..NItems |-> "none"]
  /\ bBatchResults = <<>>
  /\ allResults = <<>>
  /\ bEmitted = 0
  /\ bSub = "no"
  /\ bReceived = <<>>
  /\ srKind = "observable"
  /\ srNow = 0
  /\ instancesCache = 0
  /\ srShared = <<>>
  /\ srCallers = <<>>
  /\ srTimers = {}
  /\ srInvoked = 0
  /\ srDone = {}
  /\ srLastCall = NoReplayCall
  /\ dCfg = NoDelayConfig
  /\ dDelays = <<>>
  /\ mCfg \in MemoConfigs
  /\ mNow = 0
  /\ memoizationCache = <<>>
  /\ mCallers = <<>>
  /\ mInvoked = [k \in MemoKeys |-> 0]
  /\ mExecCount = 0
  /\ mRecent = <<>>
  /\ mLastEvict = NoEvict
  /\ mCleared = 0
  /\ fCfg = NoFlagConfig
  /\ fNow = 0
  /\ isExecuting = FALSE
  /\ cooldownActive = FALSE
  /\ sharedResult = 0
  /\ fShared = <<>>
  /\ fCallers = <<>>
  /\ fTimers = {}
  /\ fInvoked = 0
  /\ fExecCount = 0
  /\ fLastEnd = NoEnd
  /\ fLastCall = NoFlagCall
  /\ wCfg = NoWrapConfig
  /\ wPc = "applying"
  /\ wI = 0
  /\ wBatches = 0

SpecMemo == MemoInit /\ [][MemoNext]_vars

\* The same with three keys and a bound of two entries.
MemoLruInit ==
  /\ methodKind = "observable"
  /\ executionCache = [k \in Keys |-> 0]
  /\ shared = <<>>
  /\ callers = <<>>
  /\ invoked = [k \in Keys |-> 0]
  /\ settledCount = [k \in Keys |-> 0]
  /\ execCount = 0
  /\ qItems = <<>>
  /\ qEnqueued = <<>>
  /\ qStarted = <<>>
  /\ qBuffer = <<>>
  /\ qActive = 0
  /\ qWorkerAlive = TRUE
  /\ rCfg = NoRetryConfig
  /\ rPc = "idle"
  /\ rAttempt = 0
  /\ rOpRuns = 0
  /\ rLastError = "none"
  /\ rPromise = "pending"
  /\ rDelay = 0
  /\ rOutcome = NoResult
  /\ cCfg = NoCacheConfig
  /\ cNow = 1
  /\ memoryCache = [k \in AllCacheKeys |-> NoEntry]
  /\ lruKeys = <<>>
  /\ cacheGroups = [g \in Groups |-> {}]
  /\ cCalls = <<>>
  /\ cFetches = <<>>
  /\ cTimers = <<>>
  /\ cInvoked = [k \in AllCacheKeys |-> 0]
  /\ cNextOid = 1
  /\ cStored = [k \in AllCacheKeys |-> NotStored]
  /\ cLastInsert = NoInsert
  /\ cLastCall = NoCall
  /\ cAdmin = 0
  /\ cLastAdmin = NoAdmin
  /\ cStorage = [k \in AllCacheKeys |-> NoEntry]
  /\ pCfg = NoPollConfig
  /\ pNow = 0
  /\ pPc = "idle"
  /\ startTime = 0
  /\ pNextTick = 0
  /\ attemptCount = 0
  /\ lastValue = "null"
  /\ stopSubject = "open"
  /\ pDuration = "none"
  /\ pOuterDone = FALSE
  /\ pInner = "none"
  /\ pInvoked = 0
  /\ pDropped = 0
  /\ pCompleteLog = <<>>
  /\ pAttemptLog = <<>>
  /\ pDelivered = <<>>
  /\ pOutcome = "none"
  /\ pPredTrue = FALSE
  /\ pEndCause = "none"
  /\ bCfg = NoBulkConfig
  /\ bPc = "idle"
  /\ bBatch = 0
  /\ bOps = [i \in 1..NItems |-> "waiting"]
  /\ bSettled = [i \in 1..NItems |-> "none"]
  /\ bBatchResults = <<>>
  /\ allResults = <<>>
  /\ bEmitted = 0
  /\ bSub = "no"
  /\ bReceived = <<>>
  /\ srKind = "observable"
  /\ srNow = 0
  /\ instancesCache = 0
  /\ srShared = <<>>
  /\ srCallers = <<>>
  /\ srTimers = {}
  /\ srInvoked = 0
  /\ srDone = {}
  /\ srLastCall = NoReplayCall
  /\ dCfg = NoDelayConfig
  /\ dDelays = <<>>
  /\ mCfg \in MemoLruConfigs
  /\ mNow = 0
  /\ memoizationCache = <<>>
  /\ mCallers = <<>>
  /\ mInvoked = [k \in MemoKeys |-> 0]
  /\ mExecCount = 0
  /\ mRecent = <<>>
  /\ mLastEvict = NoEvict
  /\ mCleared = 0
  /\ fCfg = NoFlagConfig
  /\ fNow = 0
  /\ isExecuting = FALSE
  /\ cooldownActive = FALSE
  /\ sharedResult = 0
  /\ fShared = <<>>
  /\ fCallers = <<>>
  /\ fTimers = {}
  /\ fInvoked = 0
  /\ fExecCount = 0
  /\ fLastEnd = NoEnd
  /\ fLastCall = NoFlagCall
  /\ wCfg = NoWrapConfig
  /\ wPc = "applying"
  /\ wI = 0
  /\ wBatches = 0

SpecMemoLru == MemoLruInit /\ [][MemoNext]_vars

\* A method decorated with one of the three decorators, no call made yet.
FlagInit ==
  /\ methodKind = "observable"
  /\ executionCache = [k \in Keys |-> 0]
  /\ shared = <<>>
  /\ callers = <<>>
  /\ invoked = [k \in Keys |-> 0]
  /\ settledCount = [k \in Keys |-> 0]
  /\ execCount = 0
  /\ qItems = <<>>
  /\ qEnqueued = <<>>
  /\ qStarted = <<>>
  /\ qBuffer = <<>>
  /\ qActive = 0
  /\ qWorkerAlive = TRUE
  /\ rCfg = NoRetryConfig
  /\ rPc = "idle"
  /\ rAttempt = 0
  /\ rOpRuns = 0
  /\ rLastError = "none"
  /\ rPromise = "pending"
  /\ rDelay = 0
  /\ rOutcome = NoResult
  /\ cCfg = NoCacheConfig
  /\ cNow = 1
  /\ memoryCache = [k \in AllCacheKeys |-> NoEntry]
  /\ lruKeys = <<>>
  /\ cacheGroups = [g \in Groups |-> {}]
  /\ cCalls = <<>>
  /\ cFetches = <<>>
  /\ cTimers = <<>>
  /\ cInvoked = [k \in AllCacheKeys |-> 0]
  /\ cNextOid = 1
  /\ cStored = [k \in AllCacheKeys |-> NotStored]
  /\ cLastInsert = NoInsert
  /\ cLastCall = NoCall
  /\ cAdmin = 0
  /\ cLastAdmin = NoAdmin
  /\ cStorage = [k \in AllCacheKeys |-> NoEntry]
  /\ pCfg = NoPollConfig
  /\ pNow = 0
  /\ pPc = "idle"
  /\ startTime = 0
  /\ pNextTick = 0
  /\ attemptCount = 0
  /\ lastValue = "null"
  /\ stopSubject = "open"
  /\ pDuration = "none"
  /\ pOuterDone = FALSE
  /\ pInner = "none"
  /\ pInvoked = 0
  /\ pDropped = 0
  /\ pCompleteLog = <<>>
  /\ pAttemptLog = <<>>
  /\ pDelivered = <<>>
  /\ pOutcome = "none"
  /\ pPredTrue = FALSE
  /\ pEndCause = "none"
  /\ bCfg = NoBulkConfig
  /\ bPc = "idle"
  /\ bBatch = 0
  /\ bOps = [i \in 1..NItems |-> "waiting"]
  /\ bSettled = [i \in 1..NItems |-> "none"]
  /\ bBatchResults = <<>>
  /\ allResults = <<>>
  /\ bEmitted = 0
  /\ bSub = "no"
  /\ bReceived = <<>>
  /\ srKind = "observable"
  /\ srNow = 0
  /\ instancesCache = 0
  /\ srShared = <<>>
  /\ srCallers = <<>>
  /\ srTimers = {}
  /\ srInvoked = 0
  /\ srDone = {}
  /\ srLastCall = NoReplayCall
  /\ dCfg = NoDelayConfig
  /\ dDelays = <<>>
  /\ mCfg = NoMemoConfig
  /\ mNow = 0
  /\ memoizationCache = <<>>
  /\ mCallers = <<>>
  /\ mInvoked = [k \in MemoKeys |-> 0]
  /\ mExecCount = 0
  /\ mRecent = <<>>
  /\ mLastEvict = NoEvict
  /\ mCleared = 0
  /\ fCfg \in FlagConfigs
  /\ fNow = 0
  /\ isExecuting = FALSE
  /\ cooldownActive = FALSE
  /\ sharedResult = 0
  /\ fShared = <<>>
  /\ fCallers = <<>>
  /\ fTimers = {}
  /\ fInvoked = 0
  /\ fExecCount = 0
  /\ fLastEnd = NoEnd
  /\ fLastCall = NoFlagCall
  /\ wCfg = NoWrapConfig
  /\ wPc = "applying"
  /\ wI = 0
  /\ wBatches = 0

SpecFlag == FlagInit /\ [][FlagNext]_vars

\* A decorator about to be applied with some option.
WrapInit ==
  /\ methodKind = "observable"
  /\ executionCache = [k \in Keys |-> 0]
  /\ shared = <<>>
  /\ callers = <<>>
  /\ invoked = [k \in Keys |-> 0]
  /\ settledCount = [k \in Keys |-> 0]
  /\ execCount = 0
  /\ qItems = <<>>
  /\ qEnqueued = <<>>
  /\ qStarted = <<>>
  /\ qBuffer = <<>>
  /\ qActive = 0
  /\ qWorkerAlive = TRUE
  /\ rCfg = NoRetryConfig
  /\ rPc = "idle"
  /\ rAttempt = 0
  /\ rOpRuns = 0
  /\ rLastError = "none"
  /\ rPromise = "pending"
  /\ rDelay = 0
  /\ rOutcome = NoResult
  /\ cCfg = NoCacheConfig
  /\ cNow = 1
  /\ memoryCache = [k \in AllCacheKeys |-> NoEntry]
  /\ lruKeys = <<>>
  /\ cacheGroups = [g \in Groups |-> {}]
  /\ cCalls = <<>>
  /\ cFetches = <<>>
  /\ cTimers = <<>>
  /\ cInvoked = [k \in AllCacheKeys |-> 0]
  /\ cNextOid = 1
  /\ cStored = [k \in AllCacheKeys |-> NotStored]
  /\ cLastInsert = NoInsert
  /\ cLastCall = NoCall
  /\ cAdmin = 0
  /\ cLastAdmin = NoAdmin
  /\ cStorage = [k \in AllCacheKeys |-> NoEntry]
  /\ pCfg = NoPollConfig
  /\ pNow = 0
  /\ pPc = "idle"
  /\ startTime = 0
  /\ pNextTick = 0
  /\ attemptCount = 0
  /\ lastValue = "null"
  /\ stopSubject = "open"
  /\ pDuration = "none"
  /\ pOuterDone = FALSE
  /\ pInner = "none"
  /\ pInvoked = 0
  /\ pDropped = 0
  /\ pCompleteLog = <<>>
  /\ pAttemptLog = <<>>
  /\ pDelivered = <<>>
  /\ pOutcome = "none"
  /\ pPredTrue = FALSE
  /\ pEndCause = "none"
  /\ bCfg = NoBulkConfig
  /\ bPc = "idle"
  /\ bBatch = 0
  /\ bOps = [i \in 1..NItems |-> "waiting"]
  /\ bSettled = [i \in 1..NItems |-> "none"]
  /\ bBatchResults = <<>>
  /\ allResults = <<>>
  /\ bEmitted = 0
  /\ bSub = "no"
  /\ bReceived = <<>>
  /\ srKind = "observable"
  /\ srNow = 0
  /\ instancesCache = 0
  /\ srShared = <<>>
  /\ srCallers = <<>>
  /\ srTimers = {}
  /\ srInvoked = 0
  /\ srDone = {}
  /\ srLastCall = NoReplayCall
  /\ dCfg = NoDelayConfig
  /\ dDelays = <<>>
  /\ mCfg = NoMemoConfig
  /\ mNow = 0
  /\ memoizationCache = <<>>
  /\ mCallers = <<>>
  /\ mInvoked = [k \in MemoKeys |-> 0]
  /\ mExecCount = 0
  /\ mRecent = <<>>
  /\ mLastEvict = NoEvict
  /\ mCleared = 0
  /\ fCfg = NoFlagConfig
  /\ fNow = 0
  /\ isExecuting = FALSE
  /\ cooldownActive = FALSE
  /\ sharedResult = 0
  /\ fShared = <<>>
  /\ fCallers = <<>>
  /\ fTimers = {}
  /\ fInvoked = 0
  /\ fExecCount = 0
  /\ fLastEnd = NoEnd
  /\ fLastCall = NoFlagCall
  /\ wCfg \in WrapConfigs
  /\ wPc = "applying"
  /\ wI = 0
  /\ wBatches = 0

SpecWrap == WrapInit /\ [][WrapNext]_vars

=============================================================================
